---- MODULE Spec2Model ----
(***************************************************************************)
(* Shift-time accounting of the machine-log API (logs/views.py).           *)
(*                                                                         *)
(* Units.  Times of day are records (hour, minute, second).  Every value   *)
(* the code holds in hours (duration_hours, *_hours, total_hours, ...) is  *)
(* carried here as an integer number of SECONDS, i.e. hours * 3600, so     *)
(* that sums stay exact.  A percentage the code computes as n / d * 100 is *)
(* carried as the fraction [num |-> 100 * n, den |-> d].  Values the code  *)
(* passes through round(x, 2) are integers counting hundredths.            *)
(***************************************************************************)
EXTENDS Integers, Sequences, FiniteSets, TLC

VARIABLES store, request, response, locals

vars == <<store, request, response, locals>>

(***************************************************************************)
(* Bounds of the model.                                                    *)
(***************************************************************************)
MaxLogs == 2

(***************************************************************************)
(* Program constants.                                                      *)
(***************************************************************************)
SecondsPerHour == 3600
OpWindowStart == 30600
OpWindowEnd == 70200
LineWindowStart == 30300
LineWindowEnd == 70500
OpHoursPerDay == 10
MachineHoursPerDay == 11

\* The break bounds of the operator family are written 10.5*3600,
\* 10.6667*3600, 13.3333*3600, 14*3600, 16.3333*3600, 16.5*3600: as
\* hundredths of a second these are exact integers.
OpBreaks ==
    << [lo |-> 3780000, hi |-> 3840012],
       [lo |-> 4799988, hi |-> 5040000],
       [lo |-> 5879988, hi |-> 5940000] >>

\* The break bounds of the line/machine/global family, in seconds.
LineBreaks ==
    << [lo |-> 37800, hi |-> 38400],
       [lo |-> 48000, hi |-> 50400],
       [lo |-> 58800, hi |-> 59400] >>

(***************************************************************************)
(* Small arithmetic helpers.                                               *)
(***************************************************************************)
Max(a, b) == IF a >= b THEN a ELSE b
Min(a, b) == IF a <= b THEN a ELSE b

RECURSIVE SumSeq(_)
SumSeq(s) == IF s = <<>> THEN 0 ELSE Head(s) + SumSeq(Tail(s))

\* Variant: descending order.
RECURSIVE SortedSeqDescending(_)
SortedSeqDescending(S) ==
    IF S = {} THEN <<>>
    ELSE LET m == CHOOSE x \in S : \A y \in S : x >= y
         IN  <<m>> \o SortedSeqDescending(S \ {m})

RECURSIVE SortedSeq(_)
SortedSeq(S) ==
    IF S = {} THEN <<>>
    ELSE LET m == CHOOSE x \in S : \A y \in S : x <= y
         IN  <<m>> \o SortedSeq(S \ {m})

Range(s) == {s[i] : i \in DOMAIN s}

\* A percentage n / d * 100 with the code's zero guard (d > 0, else 0).
Pct(n, d) == IF d > 0 THEN [num |-> 100 * n, den |-> d] ELSE [num |-> 0, den |-> 1]
PctZero == [num |-> 0, den |-> 1]
PctEq(p, q) == p.num * q.den = q.num * p.den
PctIs(p, k) == p.num = k * p.den
\* 100 - p
PctComplement(p) == [num |-> 100 * p.den - p.num, den |-> p.den]

\* n / d rounded to the nearest integer, ties to even (d > 0).
RoundDiv(n, d) ==
    LET q == n \div d
        r == n % d
    IN  IF 2 * r < d THEN q
        ELSE IF 2 * r > d THEN q + 1
        ELSE IF q % 2 = 0 THEN q ELSE q + 1
\* round(n / d, 2), as a count of hundredths (100 * n / d, split so that the
\* products stay small).
Round2(n, d) == 100 * (n \div d) + RoundDiv(100 * (n % d), d)
RoundHours(secs) == Round2(secs, SecondsPerHour)
RoundPct(p) == Round2(p.num, p.den)
RoundFrac(p) == Round2(p.num, p.den)

(***************************************************************************)
(* Stored data: the Operator directory and the MachineLog universe.        *)
(***************************************************************************)
Time(h, m, s) == [hour |-> h, minute |-> m, second |-> s]

Operators ==
    { [rfid_card_no |-> "A", operator_name |-> "Asha"],
      [rfid_card_no |-> "B", operator_name |-> "Bala"] }

valid_operators == {o.rfid_card_no : o \in Operators}

MachineLog(machine, line, op, date, st, en, mode, count, skip, reserve) ==
    [MACHINE_ID |-> machine, LINE_NUMBER |-> line, OPERATOR_ID |-> op,
     DATE |-> date, START_TIME |-> st, END_TIME |-> en, MODE |-> mode,
     OPERATION_COUNT |-> count, SKIP_COUNT |-> skip, RESERVE |-> reserve]

\* Collation of the OPERATOR_ID values used (ORDER BY on a CharField).
OperatorIdOrder == <<"0", "A", "B", "Z">>
OperatorRank(op) == CHOOSE i \in DOMAIN OperatorIdOrder : OperatorIdOrder[i] = op

\* datetime.strptime(s, '%Y-%m-%d').date(): calendar dates are day numbers.
DateStrings == [d \in {"2024-01-01", "2024-01-02"} |->
                   IF d = "2024-01-01" THEN 1 ELSE 2]
strptime_ok(s) == s \in DOMAIN DateStrings
strptime(s) == DateStrings[s]

\* Cast('RESERVE', IntegerField()) on the RESERVE texts used.
ReserveTexts == [r \in {"3000", "2000", "0"} |->
                    IF r = "3000" THEN 3000 ELSE IF r = "2000" THEN 2000 ELSE 0]
reserve_numeric(r) == ReserveTexts[r]

time_to_seconds(t) == t.hour * 3600 + t.minute * 60 + t.second

(***************************************************************************)
(* Query helpers shared by the report views.                               *)
(***************************************************************************)
\* logs.filter(DATE__gte=from_date) / logs.filter(DATE__lte=to_date), each
\* applied only when its query parameter is non-empty.
filter_dates(logs, from_date_str, to_date_str) ==
    SelectSeq(logs, LAMBDA l :
        /\ (from_date_str # "" => l.DATE >= strptime(from_date_str))
        /\ (to_date_str # "" => l.DATE <= strptime(to_date_str)))

dates_parse(from_date_str, to_date_str) ==
    /\ (from_date_str # "" => strptime_ok(from_date_str))
    /\ (to_date_str # "" => strptime_ok(to_date_str))

\* ExtractHour * 3600 + ExtractMinute * 60 + ExtractSecond
start_seconds(l) == time_to_seconds(l.START_TIME)
end_seconds(l) == time_to_seconds(l.END_TIME)

\* Variant: a mode outside 1..5 is summed with the idle bucket.
mode_hours_unknown_as_idle(logs, mode) ==
    SumSeq([i \in DOMAIN logs |->
               IF \/ logs[i].MODE = mode
                  \/ (mode = 2 /\ logs[i].MODE \notin 1..5)
               THEN logs[i].duration_hours ELSE 0])

\* Sum('duration_hours') over the logs of one MODE (0 when there is none).
mode_hours(logs, mode) ==
    SumSeq([i \in DOMAIN logs |->
               IF logs[i].MODE = mode THEN logs[i].duration_hours ELSE 0])

\* Sum('SKIP_COUNT') and Sum('OPERATION_COUNT')
sum_SKIP_COUNT(logs) == SumSeq([i \in DOMAIN logs |-> logs[i].SKIP_COUNT])
sum_OPERATION_COUNT(logs) == SumSeq([i \in DOMAIN logs |-> logs[i].OPERATION_COUNT])

\* logs.filter(reserve_numeric__gt=0).aggregate(Avg('reserve_numeric')) or 0,
\* as the fraction [num, den].
average_sewing_speed(logs) ==
    LET valid_speed_logs == SelectSeq(logs, LAMBDA l : l.reserve_numeric > 0)
    IN  IF valid_speed_logs = <<>> THEN [num |-> 0, den |-> 1]
        ELSE [num |-> SumSeq([i \in DOMAIN valid_speed_logs |->
                                 valid_speed_logs[i].reserve_numeric]),
              den |-> Len(valid_speed_logs)]

\* Variant: the speed sample of the first row of the group, not the average.
daily_sewing_speed_of_first(logs) ==
    IF logs = <<>> THEN [num |-> 0, den |-> 1]
    ELSE [num |-> IF logs[1].reserve_numeric > 0 THEN logs[1].reserve_numeric ELSE 0,
          den |-> 1]

\* Avg(Case(When(reserve_numeric__gt=0, then=reserve_numeric), default=0))
\* over the rows of one group.
daily_sewing_speed(logs) ==
    [num |-> SumSeq([i \in DOMAIN logs |->
                        IF logs[i].reserve_numeric > 0
                        THEN logs[i].reserve_numeric ELSE 0]),
     den |-> Len(logs)]

(***************************************************************************)
(* Operator family: window 08:30-19:30, clamped durations.                 *)
(***************************************************************************)
\* Variant: the lower clamp is missing.
adjusted_seconds_no_lower_clamp(secs) ==
    IF secs > OpWindowEnd THEN OpWindowEnd ELSE secs

\* adjusted_start_seconds / adjusted_end_seconds
adjusted_seconds(secs) ==
    IF secs < OpWindowStart THEN OpWindowStart
    ELSE IF secs > OpWindowEnd THEN OpWindowEnd
    ELSE secs

\* duration_hours of the operator family (in seconds)
op_duration_hours(s, e) ==
    IF e <= OpWindowStart \/ s >= OpWindowEnd THEN 0
    ELSE adjusted_seconds(e) - adjusted_seconds(s)

\* Variant: a log that merely overlaps a break counts as inside it.
in_op_break_overlapping(s, e) ==
    \E i \in DOMAIN OpBreaks :
        100 * s < OpBreaks[i].hi /\ 100 * e > OpBreaks[i].lo

\* Q(start_seconds__gte=b.lo, end_seconds__lte=b.hi) for one of the breaks
in_op_break(s, e) ==
    \E i \in DOMAIN OpBreaks :
        100 * s >= OpBreaks[i].lo /\ 100 * e <= OpBreaks[i].hi

\* Q(OPERATOR_ID=0) & Q(MODE=2)
unassigned_idle(l) == l.OPERATOR_ID = "0" /\ l.MODE = 2

op_annotate(l) ==
    [MACHINE_ID |-> l.MACHINE_ID, LINE_NUMBER |-> l.LINE_NUMBER,
     OPERATOR_ID |-> l.OPERATOR_ID, DATE |-> l.DATE, MODE |-> l.MODE,
     START_TIME |-> l.START_TIME, END_TIME |-> l.END_TIME,
     OPERATION_COUNT |-> l.OPERATION_COUNT, SKIP_COUNT |-> l.SKIP_COUNT,
     start_seconds |-> start_seconds(l), end_seconds |-> end_seconds(l),
     duration_hours |-> op_duration_hours(start_seconds(l), end_seconds(l)),
     reserve_numeric |-> reserve_numeric(l.RESERVE)]

\* exclude(unassigned idle), annotate, filter(duration_hours__gt=0),
\* exclude(breaks)
operator_family_logs(logs) ==
    LET assigned == SelectSeq(logs, LAMBDA l : ~unassigned_idle(l))
        annotated == [i \in DOMAIN assigned |-> op_annotate(assigned[i])]
        positive == SelectSeq(annotated, LAMBDA l : l.duration_hours > 0)
    IN  SelectSeq(positive, LAMBDA l : ~in_op_break(l.start_seconds, l.end_seconds))

\* logs.values('DATE').distinct().count() * 10, in seconds
\* Variant: eleven nominal hours per working day.
op_available_hours_eleven(logs) ==
    Cardinality({logs[i].DATE : i \in DOMAIN logs}) * 11 * SecondsPerHour

op_available_hours(logs) ==
    Cardinality({logs[i].DATE : i \in DOMAIN logs}) * OpHoursPerDay * SecondsPerHour

\* Variant: the idle remainder without the floor at zero.
op_total_idle_hours_no_floor(available, production, no_feeding, meeting, maintenance) ==
    available - (production + no_feeding + meeting + maintenance)

\* total_idle_hours of the summary
op_total_idle_hours(available, production, no_feeding, meeting, maintenance) ==
    Max(available - (production + no_feeding + meeting + maintenance), 0)

\* npt_percentage of the summary
op_summary_npt_percentage(non_production, available) == Pct(non_production, available)

\* One row of table_data: the group (DATE, OPERATOR_ID) of the report.
op_table_row(logs, date, op) ==
    LET g == SelectSeq(logs, LAMBDA l : l.DATE = date /\ l.OPERATOR_ID = op)
        sewing_hours == mode_hours(g, 1)
        meeting_hours == mode_hours(g, 4)
        no_feeding_hours == mode_hours(g, 3)
        maintenance_hours == mode_hours(g, 5)
    IN  [DATE |-> date, OPERATOR_ID |-> op,
         sewing_hours |-> sewing_hours,
         meeting_hours |-> meeting_hours,
         no_feeding_hours |-> no_feeding_hours,
         maintenance_hours |-> maintenance_hours,
         total_OPERATION_COUNT |-> sum_OPERATION_COUNT(g),
         sewing_speed |-> daily_sewing_speed(g),
         SKIP_COUNT |-> sum_SKIP_COUNT(g),
         total_hours |-> OpHoursPerDay * SecondsPerHour,
         idle_hours |-> OpHoursPerDay * SecondsPerHour
                          - (sewing_hours + meeting_hours
                             + no_feeding_hours + maintenance_hours),
         productive_time_percentage |->
             [num |-> 100 * sewing_hours, den |-> OpHoursPerDay * SecondsPerHour],
         npt_percentage |->
             PctComplement([num |-> 100 * sewing_hours,
                            den |-> OpHoursPerDay * SecondsPerHour])]

\* order_by('DATE', 'OPERATOR_ID') over the distinct (DATE, OPERATOR_ID)
op_group_keys(logs) ==
    LET codes == {logs[i].DATE * (Len(OperatorIdOrder) + 1)
                    + OperatorRank(logs[i].OPERATOR_ID) : i \in DOMAIN logs}
        sorted == SortedSeq(codes)
    IN  [i \in DOMAIN sorted |->
            [DATE |-> sorted[i] \div (Len(OperatorIdOrder) + 1),
             OPERATOR_ID |-> OperatorIdOrder[sorted[i] % (Len(OperatorIdOrder) + 1)]]]

op_table_data(logs) ==
    LET keys == op_group_keys(logs)
    IN  [i \in DOMAIN keys |-> op_table_row(logs, keys[i].DATE, keys[i].OPERATOR_ID)]

\* Operator.objects.get(rfid_card_no=...).operator_name, "Unknown" if absent
operator_name_of(op) ==
    IF op \in valid_operators
    THEN (CHOOSE o \in Operators : o.rfid_card_no = op).operator_name
    ELSE "Unknown"

op_format_row(data) ==
    [Date |-> data.DATE,
     OperatorID |-> data.OPERATOR_ID,
     OperatorName |-> operator_name_of(data.OPERATOR_ID),
     TotalHours |-> RoundHours(data.total_hours),
     SewingHours |-> RoundHours(data.sewing_hours),
     IdleHours |-> RoundHours(Max(data.idle_hours, 0)),
     MeetingHours |-> RoundHours(data.meeting_hours),
     NoFeedingHours |-> RoundHours(data.no_feeding_hours),
     MaintenanceHours |-> RoundHours(data.maintenance_hours),
     ProductiveTimePct |-> RoundPct(data.productive_time_percentage),
     NPTPct |-> RoundPct(data.npt_percentage),
     SewingSpeed |-> RoundFrac(data.sewing_speed),
     StitchCount |-> data.total_OPERATION_COUNT,
     NeedleRuntime |-> data.SKIP_COUNT]

NoResponse == [status |-> 0]
NoLocals == [view |-> "none"]
ServerError == [status |-> 500]

\* operator_reports_by_name(request, operator_name)
operator_reports_by_name(db, operator_name, from_date_str, to_date_str) ==
    LET found == {o \in Operators : o.operator_name = operator_name}
    IN
    IF operator_name # "All" /\ found = {}
    THEN [response |-> [status |-> 404, error |-> "Operator not found"],
          locals |-> NoLocals]
    ELSE IF ~dates_parse(from_date_str, to_date_str)
    THEN [response |-> ServerError, locals |-> NoLocals]
    ELSE
    LET selected ==
            IF operator_name = "All" THEN db
            ELSE SelectSeq(db, LAMBDA l :
                     l.OPERATOR_ID = (CHOOSE o \in found : TRUE).rfid_card_no)
        logs == operator_family_logs(filter_dates(selected, from_date_str, to_date_str))
        total_working_days == Cardinality({logs[i].DATE : i \in DOMAIN logs})
        total_available_hours == op_available_hours(logs)
        total_production_hours == mode_hours(logs, 1)
        total_meeting_hours == mode_hours(logs, 4)
        total_no_feeding_hours == mode_hours(logs, 3)
        total_maintenance_hours == mode_hours(logs, 5)
        total_idle_hours ==
            op_total_idle_hours(total_available_hours, total_production_hours,
                                total_no_feeding_hours, total_meeting_hours,
                                total_maintenance_hours)
        total_non_production_hours ==
            total_no_feeding_hours + total_meeting_hours
              + total_maintenance_hours + total_idle_hours
        production_percentage == Pct(total_production_hours, total_available_hours)
        npt_percentage ==
            op_summary_npt_percentage(total_non_production_hours, total_available_hours)
        avg_speed == average_sewing_speed(logs)
        total_OPERATION_COUNT == sum_OPERATION_COUNT(logs)
        sewing_logs == SelectSeq(logs, LAMBDA l : l.MODE = 1)
        total_SKIP_COUNT == sum_SKIP_COUNT(sewing_logs)
        SKIP_COUNT_instances == Len(sewing_logs)
        \* (total_SKIP_COUNT / 3600) / total_production_hours * 100
        SKIP_COUNT_percentage == Pct(total_SKIP_COUNT, total_production_hours)
        table_data == op_table_data(logs)
    IN  [response |->
            [status |-> 200,
             totalProductionHours |-> RoundHours(total_production_hours),
             totalNonProductionHours |-> RoundHours(total_non_production_hours),
             totalIdleHours |-> RoundHours(total_idle_hours),
             productionPercentage |-> RoundPct(production_percentage),
             nptPercentage |-> RoundPct(npt_percentage),
             averageSewingSpeed |-> RoundFrac(avg_speed),
             totalStitchCount |-> total_OPERATION_COUNT,
             totalNeedleRuntime |->
                 IF SKIP_COUNT_instances > 0
                 THEN Round2(total_SKIP_COUNT, SKIP_COUNT_instances) ELSE 0,
             needleRuntimePercentage |-> RoundPct(SKIP_COUNT_percentage),
             tableData |-> [i \in DOMAIN table_data |-> op_format_row(table_data[i])],
             totalHours |-> RoundHours(total_available_hours),
             totalPT |-> RoundHours(total_production_hours),
             totalNPT |-> RoundHours(total_non_production_hours)],
         locals |->
            [view |-> "operator_reports_by_name",
             logs |-> logs,
             total_working_days |-> total_working_days,
             total_available_hours |-> total_available_hours,
             total_production_hours |-> total_production_hours,
             total_meeting_hours |-> total_meeting_hours,
             total_no_feeding_hours |-> total_no_feeding_hours,
             total_maintenance_hours |-> total_maintenance_hours,
             total_idle_hours |-> total_idle_hours,
             total_non_production_hours |-> total_non_production_hours,
             production_percentage |-> production_percentage,
             npt_percentage |-> npt_percentage,
             SKIP_COUNT_percentage |-> SKIP_COUNT_percentage,
             table_data |-> table_data]]

\* npt_percentage of one entry of operator_reports_all
op_all_npt_percentage(production_percentage) == PctComplement(production_percentage)

\* The body of the loop of operator_reports_all for one operator.
operator_summary(db, operator, from_date_str, to_date_str) ==
    LET selected == SelectSeq(db, LAMBDA l : l.OPERATOR_ID = operator.rfid_card_no)
        logs == operator_family_logs(filter_dates(selected, from_date_str, to_date_str))
        total_available_hours == op_available_hours(logs)
        total_production_hours == mode_hours(logs, 1)
        total_non_production_hours == total_available_hours - total_production_hours
        production_percentage == Pct(total_production_hours, total_available_hours)
        npt_percentage == op_all_npt_percentage(production_percentage)
    IN  [operatorId |-> operator.rfid_card_no,
         operatorName |-> operator.operator_name,
         logs |-> logs,
         total_available_hours |-> total_available_hours,
         total_production_hours |-> total_production_hours,
         total_non_production_hours |-> total_non_production_hours,
         production_percentage |-> production_percentage,
         npt_percentage |-> npt_percentage]

\* Operator.objects.all(), in rfid_card_no order
operators_in_order ==
    LET ranks == SortedSeq({OperatorRank(o.rfid_card_no) : o \in Operators})
    IN  [i \in DOMAIN ranks |->
            CHOOSE o \in Operators : o.rfid_card_no = OperatorIdOrder[ranks[i]]]

\* operator_reports_all(request)
operator_reports_all(db, from_date_str, to_date_str) ==
    IF ~dates_parse(from_date_str, to_date_str)
    THEN [response |-> ServerError, locals |-> NoLocals]
    ELSE
    LET all_operators_data ==
            [i \in DOMAIN operators_in_order |->
                operator_summary(db, operators_in_order[i], from_date_str, to_date_str)]
    IN  [response |->
            [status |-> 200,
             data |-> [i \in DOMAIN all_operators_data |->
                 [operatorId |-> all_operators_data[i].operatorId,
                  operatorName |-> all_operators_data[i].operatorName,
                  totalProductionHours |->
                      RoundHours(all_operators_data[i].total_production_hours),
                  totalNonProductionHours |->
                      RoundHours(all_operators_data[i].total_non_production_hours),
                  productionPercentage |->
                      RoundPct(all_operators_data[i].production_percentage),
                  nptPercentage |->
                      RoundPct(all_operators_data[i].npt_percentage)]]],
         locals |->
            [view |-> "operator_reports_all",
             all_operators_data |-> all_operators_data]]

(***************************************************************************)
(* Line / machine / global family: window 08:25-19:35, unclamped.          *)
(***************************************************************************)
\* duration_hours of the line/machine/global family (in seconds)
line_duration_hours(s, e) == e - s

\* filter(start_seconds__gte=30300, end_seconds__lte=70500)
in_line_window(s, e) == s >= LineWindowStart /\ e <= LineWindowEnd

\* Variant: the end bound of a break is exclusive.
in_line_break_exclusive_end(s, e) ==
    \E i \in DOMAIN LineBreaks : s >= LineBreaks[i].lo /\ e < LineBreaks[i].hi

\* Q(start_seconds__gte=b.lo, end_seconds__lte=b.hi) for one of the breaks
in_line_break(s, e) ==
    \E i \in DOMAIN LineBreaks : s >= LineBreaks[i].lo /\ e <= LineBreaks[i].hi

line_annotate(l) ==
    [MACHINE_ID |-> l.MACHINE_ID, LINE_NUMBER |-> l.LINE_NUMBER,
     OPERATOR_ID |-> l.OPERATOR_ID, DATE |-> l.DATE, MODE |-> l.MODE,
     START_TIME |-> l.START_TIME, END_TIME |-> l.END_TIME,
     OPERATION_COUNT |-> l.OPERATION_COUNT, SKIP_COUNT |-> l.SKIP_COUNT,
     start_seconds |-> start_seconds(l), end_seconds |-> end_seconds(l),
     duration_hours |-> line_duration_hours(start_seconds(l), end_seconds(l)),
     reserve_numeric |-> reserve_numeric(l.RESERVE)]

\* annotate, filter(window), exclude(breaks)
line_family_logs(logs) ==
    LET annotated == [i \in DOMAIN logs |-> line_annotate(logs[i])]
        inside == SelectSeq(annotated, LAMBDA l :
                      in_line_window(l.start_seconds, l.end_seconds))
    IN  SelectSeq(inside, LAMBDA l : ~in_line_break(l.start_seconds, l.end_seconds))

\* Variant: the operator views' exclusion of unassigned idle logs instead of
\* the directory filter.
without_unassigned_idle(db) == SelectSeq(db, LAMBDA l : ~unassigned_idle(l))

\* MachineLog.objects.filter(OPERATOR_ID__in=valid_operators)
with_valid_operator(db) == SelectSeq(db, LAMBDA l : l.OPERATOR_ID \in valid_operators)

\* non_productive_time of one day / of the summary
\* Variant: non-productive time without the idle (mode-2) bucket.
non_productive_time_without_idle(no_feeding, meeting, maintenance, idle) ==
    no_feeding + meeting + maintenance

non_productive_time(no_feeding, meeting, maintenance, idle) ==
    no_feeding + meeting + maintenance + idle

\* Variant: percentages of a nominal ten hour day instead of the logged total.
direct_percentage_of_nominal_day(part, total) ==
    Pct(part, OpHoursPerDay * SecondsPerHour)

\* productive_time_percentage, non_productive_time_percentage and the
\* percentages of the summary: (part / total * 100) if total > 0 else 0
direct_percentage(part, total) == Pct(part, total)

\* utilization_percentage
utilization_percentage(total_hours, total_ideal_hours) == Pct(total_hours, total_ideal_hours)

\* One element of daily_data: the logs of one DATE, with the loop body's
\* derived values.
daily_row(logs, date) ==
    LET g == SelectSeq(logs, LAMBDA l : l.DATE = date)
        sewing_hours == mode_hours(g, 1)
        no_feeding_hours == mode_hours(g, 3)
        meeting_hours == mode_hours(g, 4)
        maintenance_hours == mode_hours(g, 5)
        idle_hours == mode_hours(g, 2)
        productive_time == sewing_hours
        non_productive == non_productive_time(no_feeding_hours, meeting_hours,
                                              maintenance_hours, idle_hours)
        daily_total_hours == productive_time + non_productive
    IN  [DATE |-> date,
         sewing_hours |-> sewing_hours,
         no_feeding_hours |-> no_feeding_hours,
         meeting_hours |-> meeting_hours,
         maintenance_hours |-> maintenance_hours,
         idle_hours |-> idle_hours,
         productive_time |-> productive_time,
         non_productive_time |-> non_productive,
         daily_total_hours |-> daily_total_hours,
         productive_time_percentage |->
             direct_percentage(productive_time, daily_total_hours),
         non_productive_time_percentage |->
             direct_percentage(non_productive, daily_total_hours),
         sewing_speed |-> daily_sewing_speed(g),
         total_OPERATION_COUNT |-> sum_OPERATION_COUNT(g),
         SKIP_COUNT |-> sum_SKIP_COUNT(g),
         machine_count |-> Cardinality({g[i].MACHINE_ID : i \in DOMAIN g})]

\* logs.values('DATE').annotate(...).order_by('DATE')
daily_data(logs) ==
    LET dates == SortedSeq({logs[i].DATE : i \in DOMAIN logs})
    IN  [i \in DOMAIN dates |-> daily_row(logs, dates[i])]

format_daily_row(data) ==
    [Date |-> data.DATE,
     SewingHours |-> RoundHours(data.sewing_hours),
     NoFeedingHours |-> RoundHours(data.no_feeding_hours),
     MeetingHours |-> RoundHours(data.meeting_hours),
     MaintenanceHours |-> RoundHours(data.maintenance_hours),
     IdleHours |-> RoundHours(data.idle_hours),
     TotalHours |-> RoundHours(data.daily_total_hours),
     ProductiveTimePct |-> RoundPct(data.productive_time_percentage),
     NonProductiveTimePct |-> RoundPct(data.non_productive_time_percentage),
     SewingSpeed |-> RoundFrac(data.sewing_speed),
     StitchCount |-> data.total_OPERATION_COUNT,
     NeedleRuntime |-> data.SKIP_COUNT]

\* The accumulation loop over daily_data and the overall figures that
\* process_line_data and process_machine_data share.
day_totals(rows) ==
    LET total_sewing_hours == SumSeq([i \in DOMAIN rows |-> rows[i].sewing_hours])
        total_no_feeding_hours == SumSeq([i \in DOMAIN rows |-> rows[i].no_feeding_hours])
        total_meeting_hours == SumSeq([i \in DOMAIN rows |-> rows[i].meeting_hours])
        total_maintenance_hours == SumSeq([i \in DOMAIN rows |-> rows[i].maintenance_hours])
        total_idle_hours == SumSeq([i \in DOMAIN rows |-> rows[i].idle_hours])
        total_hours == SumSeq([i \in DOMAIN rows |-> rows[i].daily_total_hours])
        total_productive_time == total_sewing_hours
        total_non_productive_time ==
            non_productive_time(total_no_feeding_hours, total_meeting_hours,
                                total_maintenance_hours, total_idle_hours)
    IN  [total_sewing_hours |-> total_sewing_hours,
         total_no_feeding_hours |-> total_no_feeding_hours,
         total_meeting_hours |-> total_meeting_hours,
         total_maintenance_hours |-> total_maintenance_hours,
         total_idle_hours |-> total_idle_hours,
         total_OPERATION_COUNT |->
             SumSeq([i \in DOMAIN rows |-> rows[i].total_OPERATION_COUNT]),
         total_SKIP_COUNT |-> SumSeq([i \in DOMAIN rows |-> rows[i].SKIP_COUNT]),
         total_hours |-> total_hours,
         total_productive_time |-> total_productive_time,
         total_non_productive_time |-> total_non_productive_time,
         total_productive_percentage |->
             direct_percentage(total_productive_time, total_hours),
         total_non_productive_percentage |->
             direct_percentage(total_non_productive_time, total_hours)]

\* process_line_data(logs, LINE_NUMBERer): the unrounded locals at return
line_locals(logs, LINE_NUMBERer) ==
    LET total_ideal_hours == mode_hours(logs, 2)
        rows == daily_data(logs)
        t == day_totals(rows)
        total_working_days == Len(rows)
        sewing_logs == SelectSeq(logs, LAMBDA l : l.MODE = 1)
    IN  [lineNumber |-> LINE_NUMBERer,
         logs |-> logs,
         total_ideal_hours |-> total_ideal_hours,
         total_working_days |-> total_working_days,
         average_machines |->
             IF total_working_days > 0
             THEN [num |-> SumSeq([i \in DOMAIN rows |-> rows[i].machine_count]),
                   den |-> total_working_days]
             ELSE [num |-> 0, den |-> 1],
         daily_data |-> rows,
         totals |-> t,
         utilization_percentage |->
             utilization_percentage(t.total_hours, total_ideal_hours),
         average_sewing_speed |-> average_sewing_speed(logs),
         SKIP_COUNT_instances |-> Len(sewing_logs),
         \* (total_SKIP_COUNT / 3600) / total_productive_time * 100
         SKIP_COUNT_percentage |-> Pct(t.total_SKIP_COUNT, t.total_productive_time)]

\* process_line_data(logs, LINE_NUMBERer): the returned dictionary
line_report(loc) ==
    [lineNumber |-> loc.lineNumber,
     totalIdealHours |-> RoundHours(loc.total_ideal_hours),
     utilizationPercentage |-> RoundPct(loc.utilization_percentage),
     totalWorkingDays |-> loc.total_working_days,
     averageMachines |-> RoundFrac(loc.average_machines),
     totalHours |-> RoundHours(loc.totals.total_hours),
     totalProductiveTime |->
         [hours |-> RoundHours(loc.totals.total_productive_time),
          percentage |-> RoundPct(loc.totals.total_productive_percentage)],
     totalNonProductiveTime |->
         [hours |-> RoundHours(loc.totals.total_non_productive_time),
          percentage |-> RoundPct(loc.totals.total_non_productive_percentage),
          breakdown |->
              [noFeedingHours |-> RoundHours(loc.totals.total_no_feeding_hours),
               meetingHours |-> RoundHours(loc.totals.total_meeting_hours),
               maintenanceHours |-> RoundHours(loc.totals.total_maintenance_hours),
               idleHours |-> RoundHours(loc.totals.total_idle_hours)]],
     totalStitchCount |-> loc.totals.total_OPERATION_COUNT,
     averageSewingSpeed |-> RoundFrac(loc.average_sewing_speed),
     totalNeedleRuntime |->
         IF loc.SKIP_COUNT_instances > 0
         THEN Round2(loc.totals.total_SKIP_COUNT, loc.SKIP_COUNT_instances) ELSE 0,
     needleRuntimePercentage |-> RoundPct(loc.SKIP_COUNT_percentage),
     tableData |-> [i \in DOMAIN loc.daily_data |->
                       [row |-> format_daily_row(loc.daily_data[i]),
                        MachineCount |-> loc.daily_data[i].machine_count]]]

\* int(LINE_NUMBERer_str) on the path arguments used
LineNumberStrings == [n \in {"1", "2"} |-> IF n = "1" THEN 1 ELSE 2]
\* str(line_num)
str(n) == CHOOSE t \in DOMAIN LineNumberStrings : LineNumberStrings[t] = n
\* MACHINE_ID=machine_id on the path arguments used
MachineIdStrings == [n \in {"1", "2"} |-> IF n = "1" THEN 1 ELSE 2]

\* Variant: the field is assigned, not accumulated, in the loop over lines.
summary_total_assigned(values) ==
    IF values = <<>> THEN 0 ELSE values[Len(values)]

\* summary_data[field] += line_report[field], over the per-line reports
summary_total(values) == SumSeq(values)

\* The summary block of the "all" branch of line_reports, accumulated from
\* the (rounded) values of the per-line reports.
all_lines_summary(all_line_reports) ==
    LET n == Len(all_line_reports)
        r == all_line_reports
        totalIdealHours == summary_total([i \in 1..n |-> r[i].totalIdealHours])
        totalHours == summary_total([i \in 1..n |-> r[i].totalHours])
        totalProductiveTime == summary_total([i \in 1..n |-> r[i].totalProductiveTime.hours])
        totalNonProductiveTime ==
            summary_total([i \in 1..n |-> r[i].totalNonProductiveTime.hours])
        totalNeedleRuntime == SumSeq([i \in 1..n |-> r[i].totalNeedleRuntime])
        averageMachines == SumSeq([i \in 1..n |-> r[i].averageMachines])
        speed_sum == SumSeq([i \in 1..n |-> r[i].averageSewingSpeed * r[i].totalHours])
        speed_count == totalHours
        maxDays == IF n = 0 THEN 0
                   ELSE CHOOSE d \in {r[i].totalWorkingDays : i \in 1..n} :
                            \A j \in 1..n : r[j].totalWorkingDays <= d
    IN  [totalLines |-> n,
         totalIdealHours |-> totalIdealHours,
         utilizationPercentage |->
             RoundPct(utilization_percentage(totalHours, totalIdealHours)),
         totalWorkingDays |-> maxDays,
         averageMachines |-> IF n > 0 THEN RoundDiv(averageMachines, n) ELSE 0,
         totalHours |-> totalHours,
         totalProductiveTime |->
             [hours |-> totalProductiveTime,
              percentage |-> RoundPct(direct_percentage(totalProductiveTime, totalHours))],
         totalNonProductiveTime |->
             [hours |-> totalNonProductiveTime,
              percentage |->
                  RoundPct(direct_percentage(totalNonProductiveTime, totalHours))],
         totalStitchCount |-> summary_total([i \in 1..n |-> r[i].totalStitchCount]),
         averageSewingSpeed |->
             IF speed_count > 0 THEN RoundDiv(speed_sum, speed_count) ELSE 0,
         totalNeedleRuntime |-> totalNeedleRuntime,
         needleRuntimePercentage |->
             RoundPct(Pct(totalNeedleRuntime, totalProductiveTime))]

\* line_reports(request, LINE_NUMBERer)
line_reports(db, LINE_NUMBERer, from_date_str, to_date_str) ==
    IF LINE_NUMBERer # "all" /\ LINE_NUMBERer \notin DOMAIN LineNumberStrings
    THEN [response |-> [status |-> 400, error |-> "Invalid line number"],
          locals |-> NoLocals]
    ELSE IF ~dates_parse(from_date_str, to_date_str)
    THEN [response |-> ServerError, locals |-> NoLocals]
    ELSE
    LET all_lines == LINE_NUMBERer = "all"
        selected ==
            IF all_lines THEN with_valid_operator(db)
            ELSE SelectSeq(with_valid_operator(db), LAMBDA l :
                     l.LINE_NUMBER = LineNumberStrings[LINE_NUMBERer])
        logs == line_family_logs(filter_dates(selected, from_date_str, to_date_str))
    IN  IF all_lines
        THEN LET LINE_NUMBERers == SortedSeq({logs[i].LINE_NUMBER : i \in DOMAIN logs})
                 per_line == [i \in DOMAIN LINE_NUMBERers |->
                     line_locals(SelectSeq(logs, LAMBDA l :
                                     l.LINE_NUMBER = LINE_NUMBERers[i]),
                                 str(LINE_NUMBERers[i]))]
                 all_line_reports == [i \in DOMAIN per_line |-> line_report(per_line[i])]
             IN  [response |-> [status |-> 200,
                                allLinesReport |-> all_line_reports,
                                summary |-> all_lines_summary(all_line_reports)],
                  locals |-> [view |-> "line_reports_all", logs |-> logs,
                              entities |-> per_line]]
        ELSE LET loc == line_locals(logs, LINE_NUMBERer)
             IN  [response |-> [status |-> 200, report |-> line_report(loc)],
                  locals |-> [view |-> "line_reports", logs |-> logs,
                              entities |-> <<loc>>]]

\* process_machine_data(logs, machine_id): the unrounded locals at return
machine_locals(logs, machine_id) ==
    LET rows == daily_data(logs)
        total_working_days == Cardinality({logs[i].DATE : i \in DOMAIN logs})
    IN  [machineId |-> machine_id,
         logs |-> logs,
         total_working_days |-> total_working_days,
         total_available_hours |->
             total_working_days * MachineHoursPerDay * SecondsPerHour,
         daily_data |-> rows,
         totals |-> day_totals(rows),
         average_sewing_speed |-> average_sewing_speed(logs)]

\* process_machine_data(logs, machine_id): the returned dictionary
machine_report(loc) ==
    [machineId |-> loc.machineId,
     totalAvailableHours |-> RoundHours(loc.total_available_hours),
     totalWorkingDays |-> loc.total_working_days,
     totalHours |-> RoundHours(loc.totals.total_hours),
     totalProductiveTime |->
         [hours |-> RoundHours(loc.totals.total_productive_time),
          percentage |-> RoundPct(loc.totals.total_productive_percentage)],
     totalNonProductiveTime |->
         [hours |-> RoundHours(loc.totals.total_non_productive_time),
          percentage |-> RoundPct(loc.totals.total_non_productive_percentage),
          breakdown |->
              [noFeedingHours |-> RoundHours(loc.totals.total_no_feeding_hours),
               meetingHours |-> RoundHours(loc.totals.total_meeting_hours),
               maintenanceHours |-> RoundHours(loc.totals.total_maintenance_hours),
               idleHours |-> RoundHours(loc.totals.total_idle_hours)]],
     totalStitchCount |-> loc.totals.total_OPERATION_COUNT,
     averageSewingSpeed |-> RoundFrac(loc.average_sewing_speed),
     totalNeedleRuntime |-> 100 * loc.totals.total_SKIP_COUNT,
     tableData |-> [i \in DOMAIN loc.daily_data |->
                       [row |-> format_daily_row(loc.daily_data[i]),
                        MachineID |-> loc.machineId]]]

\* The per-machine fan-out shared by machine_reports('all') and
\* all_machines_report.
\* Variant: one report over all the logs instead of one per distinct machine.
per_machine_flattened(logs) == <<machine_locals(logs, 0)>>

per_machine(logs) ==
    LET machine_ids == SortedSeq({logs[i].MACHINE_ID : i \in DOMAIN logs})
    IN  [i \in DOMAIN machine_ids |->
            machine_locals(SelectSeq(logs, LAMBDA l : l.MACHINE_ID = machine_ids[i]),
                           machine_ids[i])]

\* machine_reports(request, machine_id)
machine_reports(db, machine_id, from_date_str, to_date_str) ==
    IF machine_id # "all" /\ machine_id \notin DOMAIN MachineIdStrings
    THEN [response |-> [status |-> 400, error |-> "Invalid machine ID"],
          locals |-> NoLocals]
    ELSE IF ~dates_parse(from_date_str, to_date_str)
    THEN [response |-> ServerError, locals |-> NoLocals]
    ELSE
    LET all_machines == machine_id = "all"
        selected ==
            IF all_machines THEN with_valid_operator(db)
            ELSE SelectSeq(with_valid_operator(db), LAMBDA l :
                     l.MACHINE_ID = MachineIdStrings[machine_id])
        logs == line_family_logs(filter_dates(selected, from_date_str, to_date_str))
    IN  IF all_machines
        THEN LET entities == per_machine(logs)
             IN  [response |->
                     [status |-> 200,
                      allMachinesReport |->
                          [i \in DOMAIN entities |-> machine_report(entities[i])],
                      totalMachines |-> Len(entities)],
                  locals |-> [view |-> "machine_reports_all", logs |-> logs,
                              entities |-> entities]]
        ELSE LET loc == machine_locals(logs, machine_id)
             IN  [response |-> [status |-> 200, report |-> machine_report(loc)],
                  locals |-> [view |-> "machine_reports", logs |-> logs,
                              entities |-> <<loc>>]]

\* all_machines_report(request)
all_machines_report(db, from_date_str, to_date_str) ==
    IF from_date_str # "" /\ ~strptime_ok(from_date_str)
    THEN [response |-> [status |-> 400,
                        error |-> "Invalid from_date format. Use YYYY-MM-DD"],
          locals |-> NoLocals]
    ELSE IF to_date_str # "" /\ ~strptime_ok(to_date_str)
    THEN [response |-> [status |-> 400,
                        error |-> "Invalid to_date format. Use YYYY-MM-DD"],
          locals |-> NoLocals]
    ELSE
    LET logs == line_family_logs(
                    filter_dates(with_valid_operator(db), from_date_str, to_date_str))
        entities == per_machine(logs)
    IN  [response |->
            [status |-> 200,
             allMachinesReport |->
                 [i \in DOMAIN entities |-> machine_report(entities[i])],
             totalMachines |-> Len(entities),
             from_date |-> from_date_str,
             to_date |-> to_date_str],
         locals |-> [view |-> "all_machines_report", logs |-> logs,
                     entities |-> entities]]

(***************************************************************************)
(* The filter endpoints: listings of the stored logs.                      *)
(***************************************************************************)
\* MODES.get(log.MODE, 'Unknown mode')
MODES(mode) ==
    CASE mode = 1 -> "Sewing"
      [] mode = 2 -> "Idle"
      [] mode = 3 -> "No feeding"
      [] mode = 4 -> "Meeting"
      [] mode = 5 -> "Maintenance"
      [] OTHER -> "Unknown mode"

\* operator_map.get(log.OPERATOR_ID, "") if log.OPERATOR_ID != "0" else ""
operator_map_get(op) ==
    IF op # "0" /\ \E o \in Operators : o.rfid_card_no = op
    THEN (CHOOSE o \in Operators : o.rfid_card_no = op).operator_name
    ELSE ""

\* log_data of one listed log
log_data(l) ==
    [MACHINE_ID |-> l.MACHINE_ID, LINE_NUMBER |-> l.LINE_NUMBER,
     OPERATOR_ID |-> l.OPERATOR_ID, DATE |-> l.DATE, MODE |-> l.MODE,
     START_TIME |-> l.START_TIME, END_TIME |-> l.END_TIME,
     OPERATION_COUNT |-> l.OPERATION_COUNT, SKIP_COUNT |-> l.SKIP_COUNT,
     RESERVE |-> l.RESERVE,
     mode_description |-> MODES(l.MODE),
     operator_name |-> operator_map_get(l.OPERATOR_ID)]

\* The body shared by filter_logs and filter_logs_by_machine_id; selected is
\* the queryset after the line / machine filter.  A date string the DateField
\* cannot parse raises out of the view.
filter_listing(view, selected, from_date, to_date) ==
    IF ~dates_parse(from_date, to_date)
    THEN [response |-> ServerError, locals |-> NoLocals]
    ELSE LET logs == filter_dates(selected, from_date, to_date)
         IN  [response |-> [status |-> 200,
                            data |-> [i \in DOMAIN logs |-> log_data(logs[i])]],
              locals |-> [view |-> view, logs |-> logs]]

\* filter_logs(request)
filter_logs(db, LINE_NUMBERer, from_date, to_date) ==
    IF LINE_NUMBERer \in {"", "all"}
    THEN filter_listing("filter_logs", db, from_date, to_date)
    ELSE IF LINE_NUMBERer \notin DOMAIN LineNumberStrings
    THEN [response |-> ServerError, locals |-> NoLocals]
    ELSE filter_listing("filter_logs",
             SelectSeq(db, LAMBDA l : l.LINE_NUMBER = LineNumberStrings[LINE_NUMBERer]),
             from_date, to_date)

\* filter_logs_by_machine_id(request)
filter_logs_by_machine_id(db, machine_id, from_date, to_date) ==
    IF machine_id \in {"", "all"}
    THEN filter_listing("filter_logs_by_machine_id", db, from_date, to_date)
    ELSE IF machine_id \notin DOMAIN MachineIdStrings
    THEN [response |-> ServerError, locals |-> NoLocals]
    ELSE filter_listing("filter_logs_by_machine_id",
             SelectSeq(db, LAMBDA l : l.MACHINE_ID = MachineIdStrings[machine_id]),
             from_date, to_date)

\* operator_report(request, operator_id).  The name `operator` is local to
\* the view: the try block binds it to the Operator row when the id is in
\* the directory and leaves it unbound otherwise.  The daily annotate then
\* evaluates operator.Q(MODE=1): AttributeError on an Operator row,
\* UnboundLocalError on the unbound name.  Neither is caught, so the view
\* ends in a server error after the name lookup and the totals.
operator_report(db, operator_id, from_date, to_date) ==
    IF ~dates_parse(from_date, to_date)
    THEN [response |-> ServerError, locals |-> NoLocals]
    ELSE
    LET queryset ==
            filter_dates(SelectSeq(db, LAMBDA l : l.OPERATOR_ID = operator_id),
                         from_date, to_date)
        found == {o \in Operators : o.rfid_card_no = operator_id}
        operator_name ==
            IF found = {} THEN "" ELSE (CHOOSE o \in found : TRUE).operator_name
        total_hours == sum_SKIP_COUNT(queryset)
        productive_hours ==
            sum_SKIP_COUNT(SelectSeq(queryset, LAMBDA l : l.MODE = 1))
    IN  [response |-> ServerError,
         locals |-> [view |-> "operator_report",
                     queryset |-> queryset,
                     operator_name |-> operator_name,
                     total_hours |-> total_hours,
                     productive_hours |-> productive_hours,
                     raised |-> IF found = {} THEN "UnboundLocalError"
                                ELSE "AttributeError"]]

(***************************************************************************)
(* The standalone operator-efficiency endpoint.                            *)
(***************************************************************************)
\* standard_work_time = 8 * 3600
standard_work_time == 8 * 3600

\* Variant: the end is not moved to the next day.
actual_work_time_same_day(start, end) == end - start

\* if end_seconds < start_seconds: end_seconds += 24 * 3600;
\* actual_work_time = end_seconds - start_seconds
actual_work_time(start, end) ==
    IF end < start THEN (end + 24 * 3600) - start ELSE end - start

\* calculate_operator_efficiency(request): one entry per stored log, in the
\* order the rows are read.
calculate_operator_efficiency(db) ==
    [status |-> 200,
     data |-> [i \in DOMAIN db |->
                  [operator |-> <<"Operator", db[i].OPERATOR_ID>>,
                   efficiency |->
                       Round2(100 * actual_work_time(time_to_seconds(db[i].START_TIME),
                                                     time_to_seconds(db[i].END_TIME)),
                              standard_work_time)]]]

(***************************************************************************)
(* Ingestion.                                                              *)
(***************************************************************************)
\* MachineLog.objects.filter(MACHINE_ID=, OPERATOR_ID=, START_TIME=,
\* END_TIME=, DATE=).exists()
duplicate_exists(db, data) ==
    \E i \in DOMAIN db :
        /\ db[i].MACHINE_ID = data.MACHINE_ID
        /\ db[i].OPERATOR_ID = data.OPERATOR_ID
        /\ db[i].START_TIME = data.START_TIME
        /\ db[i].END_TIME = data.END_TIME
        /\ db[i].DATE = data.DATE

\* log_machine_data(request) on a payload that passes the serializer
log_machine_data(db, data) ==
    IF data.MACHINE_ID = 0
    THEN [store |-> db,
          response |-> [status |-> 400, message |-> "MACHINE_ID and DATE are required"]]
    ELSE IF duplicate_exists(db, data)
    THEN [store |-> db,
          response |-> [status |-> 201, code |-> 201, message |->
              "Duplicate log entry exists for this machine, operator, and time. Data not saved."]]
    ELSE [store |-> Append(db, data),
          response |-> [status |-> 200, code |-> 200, message |-> "Log saved successfully"]]

\* int(data.get("MODE")) on the MODE texts used: a text outside the domain
\* raises ValueError.
ModeTexts == [m \in {"1", "2"} |-> IF m = "1" THEN 1 ELSE 2]

\* validate_DATE: datetime.strptime(value, '%Y:%m:%d').date() on the DATE
\* texts used.
PostedDateTexts == [d \in {"2024:01:01", "2024:01:02"} |->
                       IF d = "2024:01:01" THEN 1 ELSE 2]

\* _validate_time: "H:M:S" or "H:M" split on ':', each part through int(),
\* then strptime(..., '%H:%M:%S').time(), on the time texts used.
PostedTimeTexts == [t \in {"9:0:0", "09:00:00", "12:00", "10:00:00"} |->
                       IF t \in {"9:0:0", "09:00:00"} THEN Time(9, 0, 0)
                       ELSE IF t = "12:00" THEN Time(12, 0, 0)
                       ELSE Time(10, 0, 0)]

\* serializer.is_valid() for MachineLogSerializer
is_valid(data) ==
    /\ data.DATE \in DOMAIN PostedDateTexts
    /\ data.START_TIME \in DOMAIN PostedTimeTexts
    /\ data.END_TIME \in DOMAIN PostedTimeTexts

\* serializer.validated_data
validated_data(data) ==
    MachineLog(data.MACHINE_ID, data.LINE_NUMBER, data.OPERATOR_ID,
               PostedDateTexts[data.DATE], PostedTimeTexts[data.START_TIME],
               PostedTimeTexts[data.END_TIME], ModeTexts[data.MODE],
               data.OPERATION_COUNT, data.SKIP_COUNT, data.RESERVE)

\* log_machine_data(request) on the posted texts: the mode check and the
\* serializer come before the duplicate check and the insert.
log_machine_data_posted(db, data) ==
    IF data.MODE \notin DOMAIN ModeTexts
    THEN [store |-> db,
          response |-> [status |-> 400, message |-> "Invalid mode format"]]
    ELSE IF ~is_valid(data)
    THEN [store |-> db,
          response |-> [status |-> 201, message |-> "Validation failed"]]
    ELSE log_machine_data(db, validated_data(data))

(***************************************************************************)
(* Inputs.                                                                 *)
(***************************************************************************)
T(h, m) == Time(h, m, 0)

\* Payloads posted to log_machine_data.
LogPayloads ==
    { MachineLog(1, 1, "A", 1, T(9, 0), T(12, 0), 1, 100, 1800, "3000"),
      MachineLog(1, 1, "A", 1, T(14, 0), T(16, 0), 3, 0, 0, "0"),
      MachineLog(1, 1, "A", 1, T(9, 0), T(10, 0), 1, 50, 900, "2000"),
      MachineLog(1, 1, "A", 1, T(8, 30), T(19, 30), 1, 100, 1800, "3000"),
      MachineLog(1, 1, "A", 1, T(14, 0), T(16, 0), 2, 0, 600, "0"),
      MachineLog(1, 1, "A", 1, T(16, 0), T(17, 0), 4, 0, 0, "0"),
      MachineLog(1, 1, "A", 1, T(17, 0), T(18, 0), 5, 0, 0, "0"),
      MachineLog(1, 1, "A", 1, T(12, 0), T(13, 0), 6, 0, 0, "0"),
      MachineLog(1, 1, "A", 1, T(10, 30), T(10, 40), 1, 10, 60, "3000"),
      MachineLog(1, 1, "A", 1, T(10, 0), T(9, 0), 1, 10, 60, "3000"),
      MachineLog(1, 1, "A", 1, T(8, 0), T(9, 0), 1, 10, 60, "3000"),
      MachineLog(1, 1, "A", 2, T(9, 0), T(10, 0), 1, 50, 900, "2000"),
      MachineLog(1, 1, "A", 2, T(14, 0), T(16, 0), 2, 0, 0, "0"),
      MachineLog(2, 2, "B", 1, T(9, 0), T(12, 0), 1, 100, 3600, "2000"),
      MachineLog(2, 2, "B", 1, T(14, 0), T(16, 0), 2, 0, 0, "0"),
      MachineLog(2, 1, "0", 1, T(14, 0), T(16, 0), 2, 0, 0, "0"),
      MachineLog(2, 1, "0", 1, T(9, 0), T(10, 0), 1, 50, 900, "3000"),
      MachineLog(2, 2, "Z", 1, T(9, 0), T(10, 0), 1, 50, 900, "3000") }

\* Request bodies posted to log_machine_data as texts; all but the first
\* carry one value that does not parse.
PostedLog(date, st, en, mode) ==
    [MACHINE_ID |-> 1, LINE_NUMBER |-> 1, OPERATOR_ID |-> "A",
     DATE |-> date, START_TIME |-> st, END_TIME |-> en, MODE |-> mode,
     OPERATION_COUNT |-> 100, SKIP_COUNT |-> 1800, RESERVE |-> "3000"]

PostedPayloads ==
    { PostedLog("2024:01:01", "9:0:0", "12:00", "1"),
      PostedLog("2024:01:01", "09:00:00", "12:00", "abc"),
      PostedLog("2024-01-01", "09:00:00", "12:00", "1"),
      PostedLog("2024:01:01", "9am", "12:00", "1"),
      PostedLog("2024:01:01", "09:00:00", "25:00:00", "1") }

OperatorNames == {"Asha", "Bala", "All", "Nobody"}
LineArgs == {"1", "2", "all", "x"}
MachineArgs == {"1", "2", "all", "x"}
\* "2024-13-45" and "01-01-2024" make strptime(..., '%Y-%m-%d') raise ValueError.
DateRanges == { <<"", "">>, <<"2024-01-02", "">>, <<"", "2024-01-01">>,
                <<"2024-13-45", "">>, <<"", "01-01-2024">> }

(***************************************************************************)
(* The state machine: one action per view.                                 *)
(***************************************************************************)
NoRequest == [view |-> "none"]

\* A worker handles one request at a time, from its arrival to its response.
Idle == request = NoRequest

Init ==
    /\ store = <<>>
    /\ request = NoRequest
    /\ response = NoResponse
    /\ locals = NoLocals

LogMachineData ==
    \E data \in LogPayloads :
        /\ Idle
        /\ Len(store) < MaxLogs
        /\ LET r == log_machine_data(store, data)
           IN  /\ store' = r.store
               /\ response' = r.response
        /\ request' = [view |-> "log_machine_data", data |-> data]
        /\ locals' = NoLocals

LogPostedData ==
    \E data \in PostedPayloads :
        /\ Idle
        /\ LET r == log_machine_data_posted(store, data)
           IN  /\ Len(r.store) <= MaxLogs
               /\ store' = r.store
               /\ response' = r.response
        /\ request' = [view |-> "log_machine_data", posted |-> data]
        /\ locals' = NoLocals

OperatorReportsByName ==
    \E operator_name \in OperatorNames, dr \in DateRanges :
        /\ Idle
        /\ LET r == operator_reports_by_name(store, operator_name, dr[1], dr[2])
           IN  /\ response' = r.response
               /\ locals' = r.locals
        /\ request' = [view |-> "operator_reports_by_name", arg |-> operator_name,
                       from_date |-> dr[1], to_date |-> dr[2]]
        /\ UNCHANGED store

OperatorReportsAll ==
    \E dr \in DateRanges :
        /\ Idle
        /\ LET r == operator_reports_all(store, dr[1], dr[2])
           IN  /\ response' = r.response
               /\ locals' = r.locals
        /\ request' = [view |-> "operator_reports_all", arg |-> "",
                       from_date |-> dr[1], to_date |-> dr[2]]
        /\ UNCHANGED store

LineReports ==
    \E LINE_NUMBERer \in LineArgs, dr \in DateRanges :
        /\ Idle
        /\ LET r == line_reports(store, LINE_NUMBERer, dr[1], dr[2])
           IN  /\ response' = r.response
               /\ locals' = r.locals
        /\ request' = [view |-> "line_reports", arg |-> LINE_NUMBERer,
                       from_date |-> dr[1], to_date |-> dr[2]]
        /\ UNCHANGED store

MachineReports ==
    \E machine_id \in MachineArgs, dr \in DateRanges :
        /\ Idle
        /\ LET r == machine_reports(store, machine_id, dr[1], dr[2])
           IN  /\ response' = r.response
               /\ locals' = r.locals
        /\ request' = [view |-> "machine_reports", arg |-> machine_id,
                       from_date |-> dr[1], to_date |-> dr[2]]
        /\ UNCHANGED store

AllMachinesReport ==
    \E dr \in DateRanges :
        /\ Idle
        /\ LET r == all_machines_report(store, dr[1], dr[2])
           IN  /\ response' = r.response
               /\ locals' = r.locals
        /\ request' = [view |-> "all_machines_report", arg |-> "",
                       from_date |-> dr[1], to_date |-> dr[2]]
        /\ UNCHANGED store

\* The response is handed to the client and the request's working data is
\* dropped.
ReturnResponse ==
    /\ ~Idle
    /\ request' = NoRequest
    /\ response' = NoResponse
    /\ locals' = NoLocals
    /\ UNCHANGED store

Reports ==
    \/ OperatorReportsByName
    \/ OperatorReportsAll
    \/ LineReports
    \/ MachineReports
    \/ AllMachinesReport

Next == LogMachineData \/ LogPostedData \/ Reports \/ ReturnResponse

Spec == Init /\ [][Next]_vars

(***************************************************************************)
(* The report views over a store that holds one log: the time normalizer   *)
(* and the break filter on a wide range of start and end times.            *)
(***************************************************************************)
Spans ==
    { <<T(9, 0), T(10, 0)>>, <<T(9, 0), T(12, 0)>>,
      <<T(8, 30), T(19, 30)>>, <<T(8, 25), T(19, 35)>>, <<T(7, 0), T(21, 0)>>,
      <<T(8, 0), T(9, 0)>>, <<T(8, 25), T(9, 0)>>, <<T(8, 29), T(8, 31)>>,
      <<T(19, 0), T(20, 0)>>, <<T(19, 0), T(19, 35)>>, <<T(19, 29), T(19, 31)>>,
      <<T(7, 0), T(8, 0)>>, <<T(7, 0), T(8, 30)>>, <<T(20, 0), T(21, 0)>>,
      <<T(19, 30), T(20, 0)>>,
      <<T(10, 0), T(9, 0)>>, <<T(10, 0), T(10, 0)>>, <<T(20, 0), T(8, 0)>>,
      <<T(20, 0), T(10, 0)>>, <<T(10, 0), T(8, 0)>>, <<T(23, 0), T(1, 0)>>,
      <<T(10, 30), T(10, 40)>>, <<T(13, 20), T(14, 0)>>, <<T(16, 20), T(16, 30)>>,
      <<T(10, 32), T(10, 38)>>, <<T(13, 30), T(13, 45)>>, <<T(10, 40), T(10, 30)>>,
      <<T(10, 0), T(10, 40)>>, <<T(10, 30), T(11, 0)>>, <<T(10, 0), T(11, 0)>>,
      <<T(10, 35), T(13, 30)>>, <<T(13, 0), T(14, 30)>>, <<T(16, 25), T(17, 0)>>,
      <<Time(10, 29, 59), T(10, 40)>>, <<T(10, 30), Time(10, 40, 1)>>,
      <<Time(13, 19, 59), T(14, 0)>>, <<T(16, 20), Time(16, 30, 1)>> }

StoredLogs ==
    { MachineLog(1, 1, op, 1, sp[1], sp[2], mode, 100, 900, "3000") :
        op \in {"A", "0"}, sp \in Spans, mode \in {1, 2, 4} }

InitNormalizer ==
    /\ store \in {<<l>> : l \in StoredLogs}
    /\ request = NoRequest
    /\ response = NoResponse
    /\ locals = NoLocals

NextNormalizer == Reports \/ ReturnResponse

SpecNormalizer == InitNormalizer /\ [][NextNormalizer]_vars

(***************************************************************************)
(* The report views and the filter endpoints over stores of at most two    *)
(* logs with known and unknown modes and operators.                        *)
(***************************************************************************)
FilterLogs ==
    \E LINE_NUMBERer \in LineArgs \cup {""}, dr \in DateRanges :
        /\ Idle
        /\ LET r == filter_logs(store, LINE_NUMBERer, dr[1], dr[2])
           IN  /\ response' = r.response
               /\ locals' = r.locals
        /\ request' = [view |-> "filter_logs", arg |-> LINE_NUMBERer,
                       from_date |-> dr[1], to_date |-> dr[2]]
        /\ UNCHANGED store

FilterLogsByMachineId ==
    \E machine_id \in MachineArgs \cup {""}, dr \in DateRanges :
        /\ Idle
        /\ LET r == filter_logs_by_machine_id(store, machine_id, dr[1], dr[2])
           IN  /\ response' = r.response
               /\ locals' = r.locals
        /\ request' = [view |-> "filter_logs_by_machine_id", arg |-> machine_id,
                       from_date |-> dr[1], to_date |-> dr[2]]
        /\ UNCHANGED store

ListedLogs ==
    { MachineLog(1, 1, "A", 1, T(9, 0), T(10, 0), 1, 50, 900, "2000"),
      MachineLog(1, 1, "A", 1, T(12, 0), T(13, 0), 6, 0, 0, "0"),
      MachineLog(1, 1, "A", 2, T(11, 0), T(13, 0), 0, 0, 0, "0"),
      MachineLog(1, 1, "A", 1, T(14, 0), T(16, 0), 2, 0, 0, "0"),
      MachineLog(2, 1, "0", 1, T(9, 0), T(10, 0), 1, 50, 900, "3000"),
      MachineLog(2, 1, "0", 1, T(14, 0), T(16, 0), 2, 0, 0, "0"),
      MachineLog(2, 2, "Z", 1, T(9, 0), T(10, 0), 1, 50, 900, "3000"),
      MachineLog(2, 2, "Z", 2, T(15, 0), T(16, 0), 6, 0, 0, "0"),
      MachineLog(2, 2, "B", 2, T(9, 0), T(11, 0), 3, 0, 0, "0"),
      MachineLog(1, 1, "A", 1, T(11, 0), T(11, 10), 1, 10, 60, "3000"),
      MachineLog(2, 2, "B", 1, T(11, 0), T(11, 10), 1, 10, 60, "3000") }

InitListing ==
    /\ store \in {<<>>} \cup {<<a>> : a \in ListedLogs}
                 \cup {p \in {<<a, b>> : a \in ListedLogs, b \in ListedLogs} :
                          p[1] # p[2]}
    /\ request = NoRequest
    /\ response = NoResponse
    /\ locals = NoLocals

NextListing == Reports \/ FilterLogs \/ FilterLogsByMachineId \/ ReturnResponse

SpecListing == InitListing /\ [][NextListing]_vars

(***************************************************************************)
(* The views that look an operator up in the directory, over the same      *)
(* stores.                                                                 *)
(***************************************************************************)
OperatorIdArgs == {"A", "Z"}

OperatorReport ==
    \E operator_id \in OperatorIdArgs, dr \in DateRanges :
        /\ Idle
        /\ LET r == operator_report(store, operator_id, dr[1], dr[2])
           IN  /\ response' = r.response
               /\ locals' = r.locals
        /\ request' = [view |-> "operator_report", arg |-> operator_id,
                       from_date |-> dr[1], to_date |-> dr[2]]
        /\ UNCHANGED store

NextDirectory ==
    \/ OperatorReportsByName
    \/ FilterLogs
    \/ FilterLogsByMachineId
    \/ OperatorReport
    \/ ReturnResponse

SpecDirectory == InitListing /\ [][NextDirectory]_vars

(***************************************************************************)
(* The operator-efficiency endpoint over the one-log stores of the         *)
(* normalizer and the stores of the listing.                               *)
(***************************************************************************)
CalculateOperatorEfficiency ==
    /\ Idle
    /\ response' = calculate_operator_efficiency(store)
    /\ request' = [view |-> "calculate_operator_efficiency"]
    /\ locals' = NoLocals
    /\ UNCHANGED store

InitEfficiency == InitNormalizer \/ InitListing

NextEfficiency == CalculateOperatorEfficiency \/ ReturnResponse

SpecEfficiency == InitEfficiency /\ [][NextEfficiency]_vars

(***************************************************************************)
(* Concurrent ingestion: log_machine_data served by several workers.  Each *)
(* worker runs the view's two storage statements, the exists() query and   *)
(* the create(), as separate steps; request, response and locals hold one  *)
(* entry per worker.                                                       *)
(***************************************************************************)
MaxStored == 3

Workers == {"w1", "w2"}

IngestPayloads ==
    { MachineLog(1, 1, "A", 1, T(9, 0), T(12, 0), 1, 100, 1800, "3000"),
      MachineLog(2, 2, "B", 1, T(9, 0), T(12, 0), 1, 100, 3600, "2000") }

InFlight == Cardinality({w \in Workers : request[w] # NoRequest})

InitIngest ==
    /\ store = <<>>
    /\ request = [w \in Workers |-> NoRequest]
    /\ response = [w \in Workers |-> NoResponse]
    /\ locals = [w \in Workers |-> NoLocals]

\* The request arrives and the worker evaluates
\* MachineLog.objects.filter(...).exists() on the rows committed so far.
ExistsQuery(w) ==
    \E data \in IngestPayloads :
        /\ request[w] = NoRequest
        /\ Len(store) + InFlight < MaxStored
        /\ request' = [request EXCEPT ![w] = [view |-> "log_machine_data", data |-> data]]
        /\ locals' = [locals EXCEPT ![w] =
                         [view |-> "log_machine_data",
                          exists |-> duplicate_exists(store, data)]]
        /\ UNCHANGED <<store, response>>

\* The worker acts on the answer of its query: the duplicate response, or
\* MachineLog.objects.create(**validated_data) and the success response.
CreateOrReject(w) ==
    /\ locals[w] # NoLocals
    /\ response[w] = NoResponse
    /\ IF locals[w].exists
       THEN /\ response' = [response EXCEPT ![w] =
                   [status |-> 201, code |-> 201, message |->
                       "Duplicate log entry exists for this machine, operator, and time. Data not saved."]]
            /\ UNCHANGED store
       ELSE /\ store' = Append(store, request[w].data)
            /\ response' = [response EXCEPT ![w] =
                   [status |-> 200, code |-> 200, message |-> "Log saved successfully"]]
    /\ UNCHANGED <<request, locals>>

ReturnIngestResponse(w) ==
    /\ response[w] # NoResponse
    /\ request' = [request EXCEPT ![w] = NoRequest]
    /\ response' = [response EXCEPT ![w] = NoResponse]
    /\ locals' = [locals EXCEPT ![w] = NoLocals]
    /\ UNCHANGED store

NextIngest ==
    \E w \in Workers : ExistsQuery(w) \/ CreateOrReject(w) \/ ReturnIngestResponse(w)

SpecIngest == InitIngest /\ [][NextIngest]_vars

(***************************************************************************)
(* RoundRobinRouter: one instance, constructed by the first thread and     *)
(* called by every thread.  _state is a threading.local(): locals holds    *)
(* each thread's own attributes of it, response what the thread's last     *)
(* call returned or raised, request the number of calls the thread made.   *)
(***************************************************************************)
MaxCalls == 4

Threads == {"t1", "t2", "t3"}

\* self.databases
databases == <<"default", "replica1", "replica2">>

\* __init__ ran in thread t1: only there hasattr(self._state, 'index') holds.
InitRouter ==
    /\ store = <<>>
    /\ request = [t \in Threads |-> 0]
    /\ response = [t \in Threads |-> "none"]
    /\ locals = [t \in Threads |->
                    IF t = "t1" THEN [has_index |-> TRUE, index |-> 0]
                    ELSE [has_index |-> FALSE]]

\* db_for_read(self, model, **hints): reading self._state.index in a thread
\* where the attribute was never set raises AttributeError.
DbForRead(t) ==
    /\ request[t] < MaxCalls
    /\ request' = [request EXCEPT ![t] = @ + 1]
    /\ IF locals[t].has_index
       THEN /\ response' = [response EXCEPT ![t] = databases[locals[t].index + 1]]
            /\ locals' = [locals EXCEPT ![t].index = (@ + 1) % Len(databases)]
       ELSE /\ response' = [response EXCEPT ![t] = "AttributeError"]
            /\ UNCHANGED locals
    /\ UNCHANGED store

\* db_for_write(self, model, **hints)
DbForWrite(t) ==
    /\ request[t] < MaxCalls
    /\ request' = [request EXCEPT ![t] = @ + 1]
    /\ response' = [response EXCEPT ![t] = "default"]
    /\ UNCHANGED <<store, locals>>

NextRouter == \E t \in Threads : DbForRead(t) \/ DbForWrite(t)

SpecRouter == InitRouter /\ [][NextRouter]_vars

(***************************************************************************)
(* Vocabulary of the properties.                                           *)
(***************************************************************************)
OperatorFamilyView ==
    locals.view \in {"operator_reports_by_name", "operator_reports_all"}
LineFamilyView ==
    locals.view \in {"line_reports", "line_reports_all", "machine_reports",
                     "machine_reports_all", "all_machines_report"}

\* The annotated logs that feed the aggregates of the report just computed.
ContributingLogs ==
    IF locals.view = "operator_reports_by_name" THEN Range(locals.logs)
    ELSE IF locals.view = "operator_reports_all"
    THEN UNION {Range(locals.all_operators_data[i].logs) :
                   i \in DOMAIN locals.all_operators_data}
    ELSE IF LineFamilyView THEN Range(locals.logs)
    ELSE {}

\* Every hours figure of the report just computed that is summed from logs.
SummedHours ==
    IF locals.view = "operator_reports_by_name"
    THEN {locals.total_production_hours, locals.total_meeting_hours,
          locals.total_no_feeding_hours, locals.total_maintenance_hours,
          locals.total_available_hours}
         \cup UNION {{locals.table_data[i].sewing_hours,
                      locals.table_data[i].meeting_hours,
                      locals.table_data[i].no_feeding_hours,
                      locals.table_data[i].maintenance_hours,
                      locals.table_data[i].total_hours} :
                        i \in DOMAIN locals.table_data}
    ELSE IF locals.view = "operator_reports_all"
    THEN UNION {{locals.all_operators_data[i].total_production_hours,
                 locals.all_operators_data[i].total_available_hours} :
                   i \in DOMAIN locals.all_operators_data}
    ELSE IF LineFamilyView
    THEN UNION {{locals.entities[i].totals.total_sewing_hours,
                 locals.entities[i].totals.total_no_feeding_hours,
                 locals.entities[i].totals.total_meeting_hours,
                 locals.entities[i].totals.total_maintenance_hours,
                 locals.entities[i].totals.total_idle_hours,
                 locals.entities[i].totals.total_hours} :
                   i \in DOMAIN locals.entities}
    ELSE {}

\* The request's date range and entity selector admit the stored log l.
InDateRange(l) ==
    /\ (request.from_date # "" => l.DATE >= strptime(request.from_date))
    /\ (request.to_date # "" => l.DATE <= strptime(request.to_date))
OperatorSelects(l) ==
    /\ OperatorFamilyView
    /\ InDateRange(l)
    /\ IF request.view = "operator_reports_by_name"
       THEN \/ request.arg = "All"
            \/ \E o \in Operators : /\ o.operator_name = request.arg
                                    /\ o.rfid_card_no = l.OPERATOR_ID
       ELSE l.OPERATOR_ID \in valid_operators
LineSelects(l) ==
    /\ LineFamilyView
    /\ InDateRange(l)
    /\ l.OPERATOR_ID \in valid_operators
    /\ \/ request.arg \in {"all", ""}
       \/ /\ request.view = "line_reports"
          /\ request.arg \in {"1", "2"}
          /\ l.LINE_NUMBER = (IF request.arg = "1" THEN 1 ELSE 2)
       \/ /\ request.view = "machine_reports"
          /\ request.arg \in {"1", "2"}
          /\ l.MACHINE_ID = (IF request.arg = "1" THEN 1 ELSE 2)

\* Seconds from midnight of a time of day, written out.
Clock(h, m, sec) == 3600 * h + 60 * m + sec
StartOf(l) == Clock(l.START_TIME.hour, l.START_TIME.minute, l.START_TIME.second)
EndOf(l) == Clock(l.END_TIME.hour, l.END_TIME.minute, l.END_TIME.second)

\* The three configured breaks: 10:30-10:40, 13:20-14:00, 16:20-16:30.
ConfiguredBreaks ==
    { <<Clock(10, 30, 0), Clock(10, 40, 0)>>,
      <<Clock(13, 20, 0), Clock(14, 0, 0)>>,
      <<Clock(16, 20, 0), Clock(16, 30, 0)>> }
WhollyInsideBreak(l) ==
    \E b \in ConfiguredBreaks : StartOf(l) >= b[1] /\ EndOf(l) <= b[2]
StraddlesBreak(l) ==
    /\ StartOf(l) < EndOf(l)
    /\ \E b \in ConfiguredBreaks :
          /\ StartOf(l) < b[2] /\ EndOf(l) > b[1]
          /\ (StartOf(l) < b[1] \/ EndOf(l) > b[2])

\* C1 (as claimed): in every report family every log that contributes to an
\* aggregate has a duration d with 0 <= d <= the length of the working window
\* (11 h for 08:30-19:30, 11 h 10 min for 08:25-19:35).
C1_DurationWithinWindow ==
    \A l \in ContributingLogs :
        /\ 0 <= l.duration_hours
        /\ l.duration_hours <=
             (IF OperatorFamilyView THEN 11 * 3600 ELSE 11 * 3600 + 10 * 60)

\* The part of C1 that the operator family satisfies.
C1_OperatorFamilyDurationWithinWindow ==
    OperatorFamilyView =>
        \A l \in ContributingLogs :
            0 < l.duration_hours /\ l.duration_hours <= 11 * 3600

\* C2: a log whose start >= break-start and end <= break-end for one of the
\* three breaks (bounds inclusive) is excluded from the report and adds zero
\* hours to every bucket and to total hours, in both report families.
C2_BreakLogExcluded ==
    (locals.view # "none" /\ Len(store) = 1 /\ WhollyInsideBreak(store[1])) =>
        /\ ContributingLogs = {}
        /\ \A h \in SummedHours : h = 0

C2_Witness ==
    /\ locals.view = "line_reports"
    /\ Len(store) = 1
    /\ StartOf(store[1]) = Clock(10, 30, 0)
    /\ EndOf(store[1]) = Clock(10, 40, 0)
    /\ LineSelects(store[1])
    /\ response.status = 200
    /\ response.report.totalHours = 0

\* The hours the report just computed counts in its buckets, over all its
\* entities (the operator family sums modes 1, 3, 4, 5; operator_reports_all
\* sums mode 1 only; the line family sums modes 1 to 5).
CountedHours ==
    IF locals.view = "operator_reports_by_name"
    THEN locals.total_production_hours + locals.total_no_feeding_hours
           + locals.total_meeting_hours + locals.total_maintenance_hours
    ELSE IF locals.view = "operator_reports_all"
    THEN SumSeq([i \in DOMAIN locals.all_operators_data |->
                    locals.all_operators_data[i].total_production_hours])
    ELSE IF LineFamilyView
    THEN SumSeq([i \in DOMAIN locals.entities |->
                    locals.entities[i].totals.total_hours])
    ELSE 0
CountedModes ==
    IF locals.view = "operator_reports_by_name" THEN {1, 3, 4, 5}
    ELSE IF locals.view = "operator_reports_all" THEN {1}
    ELSE {1, 2, 3, 4, 5}

\* The report just computed holds the single stored log with duration d.
CountsWith(l, d) ==
    /\ \E c \in ContributingLogs :
          /\ ContributingLogs = {c}
          /\ c.START_TIME = l.START_TIME /\ c.END_TIME = l.END_TIME
          /\ c.duration_hours = d
    /\ (l.MODE \in CountedModes => CountedHours = d)

\* C3: a log that overlaps a break without lying wholly inside it is kept by
\* the break filter and its whole duration, the part inside the break
\* included, is counted: the window-normalised duration in the operator
\* family, end - start in the line/machine/global family.
C3_StraddlingLogKeptWhole ==
    (Len(store) = 1 /\ StraddlesBreak(store[1])) =>
        LET l == store[1] IN
        /\ (OperatorSelects(l) /\ ~(l.OPERATOR_ID = "0" /\ l.MODE = 2)) =>
              CountsWith(l, Min(EndOf(l), Clock(19, 30, 0))
                              - Max(StartOf(l), Clock(8, 30, 0)))
        /\ (/\ LineSelects(l)
            /\ StartOf(l) >= Clock(8, 25, 0)
            /\ EndOf(l) <= Clock(19, 35, 0)) =>
              CountsWith(l, EndOf(l) - StartOf(l))

C3_Witness ==
    /\ locals.view = "operator_reports_by_name"
    /\ Len(store) = 1
    /\ StartOf(store[1]) = Clock(10, 0, 0)
    /\ EndOf(store[1]) = Clock(10, 40, 0)
    /\ store[1].MODE = 1
    /\ OperatorSelects(store[1])
    /\ locals.total_production_hours = 40 * 60

\* The log reaches outside the window [ws, we] and overlaps it.
PartlyInWindow(l, ws, we) ==
    /\ StartOf(l) < EndOf(l)
    /\ (StartOf(l) < ws \/ EndOf(l) > we)
    /\ Min(EndOf(l), we) > Max(StartOf(l), ws)

HoursOf(logs, modes) ==
    SumSeq([i \in DOMAIN logs |->
               IF logs[i].MODE \in modes THEN logs[i].duration_hours ELSE 0])
\* The logs of a sequence of one DATE, and of one OPERATOR_ID.
OnDate(logs, date) == SelectSeq(logs, LAMBDA l : l.DATE = date)
OfOperator(logs, op) == SelectSeq(logs, LAMBDA l : l.OPERATOR_ID = op)
DatesOf(logs) == {logs[i].DATE : i \in DOMAIN logs}

\* C5: in the operator report, for the summary and for every daily
\* (date, operator) row, idle hours = max(available - (sewing + no-feeding +
\* meeting + maintenance), 0) with 10 available hours per working day; the
\* durations of mode-2 logs are never added into idle hours.
C5_DerivedIdle ==
    locals.view = "operator_reports_by_name" =>
        /\ locals.total_idle_hours =
             Max(10 * 3600 * Cardinality(DatesOf(locals.logs))
                   - HoursOf(locals.logs, {1, 3, 4, 5}), 0)
        /\ response.totalIdleHours = RoundHours(locals.total_idle_hours)
        /\ Len(response.tableData) = Len(locals.table_data)
        /\ \A i \in DOMAIN response.tableData :
              response.tableData[i].IdleHours =
                  RoundHours(Max(10 * 3600
                      - HoursOf(OfOperator(OnDate(locals.logs,
                                                      response.tableData[i].Date),
                                               response.tableData[i].OperatorID),
                                {1, 3, 4, 5}),
                      0))

C5_Witness ==
    /\ locals.view = "operator_reports_by_name"
    /\ \E l \in ContributingLogs : l.MODE = 2
    /\ \E l \in ContributingLogs : l.MODE = 1
    /\ locals.total_idle_hours = 7 * 3600
    /\ Len(response.tableData) = 1
    /\ response.tableData[1].IdleHours = 700

\* C6: in line and machine reports each daily row's total hours is exactly
\* the sewing + no-feeding + meeting + maintenance + idle (mode-2) hours of
\* that date, and the summary's total hours is the sum of the daily totals,
\* which is productive hours + non-productive hours (before rounding).
C6_DirectTotals ==
    LineFamilyView =>
        \A k \in DOMAIN locals.entities :
            LET e == locals.entities[k] IN
            /\ \A i \in DOMAIN e.daily_data :
                  LET r == e.daily_data[i] IN
                  /\ r.daily_total_hours =
                       HoursOf(OnDate(e.logs, r.DATE), {1, 2, 3, 4, 5})
                  /\ r.daily_total_hours =
                       r.sewing_hours + r.no_feeding_hours + r.meeting_hours
                         + r.maintenance_hours + r.idle_hours
                  /\ r.idle_hours = HoursOf(OnDate(e.logs, r.DATE), {2})
            /\ e.totals.total_hours =
                 SumSeq([i \in DOMAIN e.daily_data |-> e.daily_data[i].daily_total_hours])
            /\ e.totals.total_hours =
                 e.totals.total_productive_time + e.totals.total_non_productive_time
            /\ e.totals.total_hours = HoursOf(e.logs, {1, 2, 3, 4, 5})

C6_Witness ==
    /\ locals.view = "line_reports"
    /\ Len(locals.entities[1].daily_data) = 2
    /\ locals.entities[1].daily_data[2].idle_hours = 2 * 3600
    /\ locals.entities[1].daily_data[1].sewing_hours = 3 * 3600
    /\ locals.entities[1].totals.total_hours = 5 * 3600

\* One entity on one day: a 3 h mode-1 log and a 2 h mode-3 log inside the
\* working window, and nothing else.
ThreeAndTwoHours ==
    /\ Len(store) = 2
    /\ \E i, j \in DOMAIN store :
          /\ store[i].MODE = 1 /\ EndOf(store[i]) - StartOf(store[i]) = 3 * 3600
          /\ store[j].MODE = 3 /\ EndOf(store[j]) - StartOf(store[j]) = 2 * 3600
    /\ \A i \in DOMAIN store :
          /\ StartOf(store[i]) >= Clock(8, 30, 0)
          /\ EndOf(store[i]) <= Clock(19, 30, 0)
          /\ ~WhollyInsideBreak(store[i])
          /\ store[i].OPERATOR_ID = store[1].OPERATOR_ID
          /\ store[i].LINE_NUMBER = store[1].LINE_NUMBER
          /\ store[i].MACHINE_ID = store[1].MACHINE_ID
          /\ store[i].DATE = store[1].DATE

\* C7: for such an entity the direct-idle reports (line/machine) give total
\* hours 5, productive 60 % and non-productive 40 %, while the derived-idle
\* operator report (10 h nominal) gives productive 30 % and non-productive
\* 70 %.
C7_TwoPolicies ==
    ThreeAndTwoHours =>
        /\ (LineSelects(store[1]) /\ LineSelects(store[2])) =>
              /\ Len(locals.entities) = 1
              /\ locals.entities[1].totals.total_hours = 5 * 3600
              /\ PctIs(locals.entities[1].totals.total_productive_percentage, 60)
              /\ PctIs(locals.entities[1].totals.total_non_productive_percentage, 40)
              /\ Len(locals.entities[1].daily_data) = 1
              /\ locals.entities[1].daily_data[1].daily_total_hours = 5 * 3600
              /\ PctIs(locals.entities[1].daily_data[1].productive_time_percentage, 60)
              /\ PctIs(locals.entities[1].daily_data[1].non_productive_time_percentage, 40)
        /\ (/\ locals.view = "operator_reports_by_name"
            /\ OperatorSelects(store[1]) /\ OperatorSelects(store[2])) =>
              /\ response.productionPercentage = 3000
              /\ response.nptPercentage = 7000
              /\ PctIs(locals.production_percentage, 30)
              /\ PctIs(locals.npt_percentage, 70)

C7_Witness ==
    /\ ThreeAndTwoHours
    /\ locals.view = "machine_reports"
    /\ LineSelects(store[1]) /\ LineSelects(store[2])
    /\ response.report.totalHours = 500
    /\ response.report.totalProductiveTime.percentage = 6000
    /\ response.report.totalNonProductiveTime.percentage = 4000

\* C8: in the operator reports productionPercentage = production (mode-1)
\* hours / (10 x number of distinct dates with a retained log) x 100; a
\* single mode-1 log 09:00:00-10:00:00 yields duration 1.0 h, production
\* hours 1.0 and production percentage 10.0.
C8_ProductionPercentage ==
    /\ (locals.view = "operator_reports_by_name" /\ locals.logs # <<>>) =>
          response.productionPercentage =
              Round2(100 * HoursOf(locals.logs, {1}),
                     10 * 3600 * Cardinality(DatesOf(locals.logs)))
    /\ locals.view = "operator_reports_all" =>
          \A i \in DOMAIN locals.all_operators_data :
              LET e == locals.all_operators_data[i] IN
              e.logs # <<>> =>
                  response.data[i].productionPercentage =
                      Round2(100 * HoursOf(e.logs, {1}),
                             10 * 3600 * Cardinality(DatesOf(e.logs)))
    /\ (/\ locals.view = "operator_reports_by_name"
        /\ Len(store) = 1
        /\ store[1].MODE = 1
        /\ StartOf(store[1]) = Clock(9, 0, 0)
        /\ EndOf(store[1]) = Clock(10, 0, 0)
        /\ OperatorSelects(store[1])) =>
          /\ \A l \in ContributingLogs : l.duration_hours = 3600
          /\ ContributingLogs # {}
          /\ response.totalProductionHours = 100
          /\ response.productionPercentage = 1000

C8_Witness ==
    /\ locals.view = "operator_reports_by_name"
    /\ request.arg = "Asha"
    /\ Len(store) = 1
    /\ store[1].MODE = 1
    /\ StartOf(store[1]) = Clock(9, 0, 0)
    /\ EndOf(store[1]) = Clock(10, 0, 0)
    /\ response.productionPercentage = 1000

\* C9: in every derived-idle output (the operator report's summary and each
\* of its daily rows, and every entry of the all-operators report) the
\* non-productive percentage equals 100 minus the productive percentage,
\* also when the bucket hours sum to more than the nominal 10 h per day.
\* Stated for outputs with at least one retained log, on the rounded values
\* of the response (hundredths of a percent).
C9_NptIsComplement ==
    /\ (locals.view = "operator_reports_by_name" /\ locals.logs # <<>>) =>
          /\ response.nptPercentage = 10000 - response.productionPercentage
          /\ \A i \in DOMAIN response.tableData :
                response.tableData[i].NPTPct =
                    10000 - response.tableData[i].ProductiveTimePct
    /\ locals.view = "operator_reports_all" =>
          \A i \in DOMAIN response.data :
              locals.all_operators_data[i].logs # <<>> =>
                  response.data[i].nptPercentage =
                      10000 - response.data[i].productionPercentage

\* The part of C9 that the code does satisfy: the daily rows of the operator
\* report and the entries of the all-operators report are complements.
C9_RowsAndEntriesAreComplements ==
    /\ locals.view = "operator_reports_by_name" =>
          \A i \in DOMAIN response.tableData :
              response.tableData[i].NPTPct =
                  10000 - response.tableData[i].ProductiveTimePct
    /\ locals.view = "operator_reports_all" =>
          \A i \in DOMAIN response.data :
              response.data[i].nptPercentage =
                  10000 - response.data[i].productionPercentage

\* C10: whenever a group has zero available, ideal or total hours, every
\* percentage field reported for that group is 0.
C10_ZeroDenominatorGivesZero ==
    /\ (locals.view = "operator_reports_by_name"
          /\ locals.total_available_hours = 0) =>
          /\ response.productionPercentage = 0
          /\ response.nptPercentage = 0
    /\ locals.view = "operator_reports_all" =>
          \A i \in DOMAIN response.data :
              locals.all_operators_data[i].total_available_hours = 0 =>
                  /\ response.data[i].productionPercentage = 0
                  /\ response.data[i].nptPercentage = 0
    /\ LineFamilyView =>
          \A k \in DOMAIN locals.entities :
              LET e == locals.entities[k] IN
              /\ e.totals.total_hours = 0 =>
                    /\ PctIs(e.totals.total_productive_percentage, 0)
                    /\ PctIs(e.totals.total_non_productive_percentage, 0)
              /\ (locals.view \in {"line_reports", "line_reports_all"}
                    /\ e.total_ideal_hours = 0) =>
                    PctIs(e.utilization_percentage, 0)
              /\ \A i \in DOMAIN e.daily_data :
                    e.daily_data[i].daily_total_hours = 0 =>
                        /\ PctIs(e.daily_data[i].productive_time_percentage, 0)
                        /\ PctIs(e.daily_data[i].non_productive_time_percentage, 0)

\* The part of C10 that the code does satisfy: every site other than the
\* non-productive percentage of the all-operators report.
C10_GuardedSitesGiveZero ==
    /\ (locals.view = "operator_reports_by_name"
          /\ locals.total_available_hours = 0) =>
          /\ response.productionPercentage = 0
          /\ response.nptPercentage = 0
    /\ locals.view = "operator_reports_all" =>
          \A i \in DOMAIN response.data :
              locals.all_operators_data[i].total_available_hours = 0 =>
                  response.data[i].productionPercentage = 0
    /\ LineFamilyView =>
          \A k \in DOMAIN locals.entities :
              LET e == locals.entities[k] IN
              /\ e.totals.total_hours = 0 =>
                    /\ PctIs(e.totals.total_productive_percentage, 0)
                    /\ PctIs(e.totals.total_non_productive_percentage, 0)
              /\ (locals.view \in {"line_reports", "line_reports_all"}
                    /\ e.total_ideal_hours = 0) =>
                    PctIs(e.utilization_percentage, 0)
              /\ \A i \in DOMAIN e.daily_data :
                    e.daily_data[i].daily_total_hours = 0 =>
                        /\ PctIs(e.daily_data[i].productive_time_percentage, 0)
                        /\ PctIs(e.daily_data[i].non_productive_time_percentage, 0)

\* The request's entity selector and date range admit the stored log l,
\* leaving the operator filters aside.
EntitySelects(l) ==
    /\ InDateRange(l)
    /\ \/ request.view = "operator_reports_by_name" /\ request.arg = "All"
       \/ request.view = "all_machines_report"
       \/ /\ request.view \in {"line_reports", "machine_reports"}
          /\ request.arg = "all"
       \/ /\ request.view = "line_reports"
          /\ request.arg \in DOMAIN LineNumberStrings
          /\ LineNumberStrings[request.arg] = l.LINE_NUMBER
       \/ /\ request.view = "machine_reports"
          /\ request.arg \in DOMAIN MachineIdStrings
          /\ MachineIdStrings[request.arg] = l.MACHINE_ID

\* The window and break filters of the running view keep the stored log l.
PassesTimeFilters(l) ==
    /\ ~WhollyInsideBreak(l)
    /\ IF OperatorFamilyView
       THEN Min(EndOf(l), OpWindowEnd) - Max(StartOf(l), OpWindowStart) > 0
       ELSE StartOf(l) >= LineWindowStart /\ EndOf(l) <= LineWindowEnd

\* C11 (as claimed): in each of the four report assemblers a log that the
\* request selects and the time filters keep is missing from the report if
\* and only if OPERATOR_ID = "0" and MODE = 2; a log with OPERATOR_ID = "0"
\* and another mode remains in the report.
C11_OnlyUnassignedIdleRemoved ==
    (/\ locals.view # "none"
     /\ Len(store) = 1
     /\ EntitySelects(store[1])
     /\ PassesTimeFilters(store[1])) =>
        (ContributingLogs = {} <=>
            (store[1].OPERATOR_ID = "0" /\ store[1].MODE = 2))

\* C11 (amended): in the operator report a selected log that the time
\* filters keep is missing if and only if OPERATOR_ID = "0" and MODE = 2;
\* in the line, machine and global reports it is missing if and only if its
\* OPERATOR_ID is absent from the Operator directory, whatever its mode.
C11_UnassignedFilterPerFamily ==
    (/\ locals.view # "none"
     /\ Len(store) = 1
     /\ EntitySelects(store[1])
     /\ PassesTimeFilters(store[1])) =>
        /\ locals.view = "operator_reports_by_name" =>
              (ContributingLogs = {} <=>
                  (store[1].OPERATOR_ID = "0" /\ store[1].MODE = 2))
        /\ LineFamilyView =>
              (ContributingLogs = {} <=>
                  ~(\E o \in Operators : o.rfid_card_no = store[1].OPERATOR_ID))

C11_Witness ==
    /\ locals.view = "line_reports"
    /\ Len(store) = 1
    /\ store[1].OPERATOR_ID = "0"
    /\ store[1].MODE = 1
    /\ EntitySelects(store[1])
    /\ PassesTimeFilters(store[1])
    /\ ContributingLogs = {}
    /\ response.status = 200
    /\ response.report.totalHours = 0

\* The request's path argument and date strings are ones the view accepts.
RequestWellFormed ==
    /\ dates_parse(request.from_date, request.to_date)
    /\ request.view = "operator_reports_by_name" =>
          (request.arg = "All" \/ \E o \in Operators : o.operator_name = request.arg)
    /\ request.view \in {"line_reports", "machine_reports"} =>
          request.arg \in {"1", "2", "all"}
    /\ request.view \in {"filter_logs", "filter_logs_by_machine_id"} =>
          request.arg \in {"1", "2", "all", ""}

FilterView == locals.view \in {"filter_logs", "filter_logs_by_machine_id"}

\* C12: a log whose MODE is outside 1..5 adds its duration to no named
\* bucket (sewing, idle, no-feeding, meeting, maintenance) and to no
\* total-hours figure of any report: every bucket is the sum of the durations
\* of the retained logs of its own mode and total hours the sum over modes
\* 1..5.  Such a log raises no error, and the filter endpoints label it
\* 'Unknown mode'.
C12_UnknownModeUncounted ==
    /\ locals.view = "operator_reports_by_name" =>
          /\ locals.total_production_hours = HoursOf(locals.logs, {1})
          /\ locals.total_no_feeding_hours = HoursOf(locals.logs, {3})
          /\ locals.total_meeting_hours = HoursOf(locals.logs, {4})
          /\ locals.total_maintenance_hours = HoursOf(locals.logs, {5})
          /\ \A i \in DOMAIN locals.table_data :
                LET r == locals.table_data[i]
                    g == OfOperator(OnDate(locals.logs, r.DATE), r.OPERATOR_ID)
                IN  /\ r.sewing_hours = HoursOf(g, {1})
                    /\ r.no_feeding_hours = HoursOf(g, {3})
                    /\ r.meeting_hours = HoursOf(g, {4})
                    /\ r.maintenance_hours = HoursOf(g, {5})
    /\ locals.view = "operator_reports_all" =>
          \A i \in DOMAIN locals.all_operators_data :
              locals.all_operators_data[i].total_production_hours =
                  HoursOf(locals.all_operators_data[i].logs, {1})
    /\ LineFamilyView =>
          \A k \in DOMAIN locals.entities :
              LET e == locals.entities[k] IN
              /\ e.totals.total_sewing_hours = HoursOf(e.logs, {1})
              /\ e.totals.total_idle_hours = HoursOf(e.logs, {2})
              /\ e.totals.total_no_feeding_hours = HoursOf(e.logs, {3})
              /\ e.totals.total_meeting_hours = HoursOf(e.logs, {4})
              /\ e.totals.total_maintenance_hours = HoursOf(e.logs, {5})
              /\ e.totals.total_hours = HoursOf(e.logs, 1..5)
              /\ \A i \in DOMAIN e.daily_data :
                    LET r == e.daily_data[i]
                        g == OnDate(e.logs, r.DATE)
                    IN  /\ r.sewing_hours = HoursOf(g, {1})
                        /\ r.idle_hours = HoursOf(g, {2})
                        /\ r.no_feeding_hours = HoursOf(g, {3})
                        /\ r.meeting_hours = HoursOf(g, {4})
                        /\ r.maintenance_hours = HoursOf(g, {5})
                        /\ r.daily_total_hours = HoursOf(g, 1..5)
    /\ FilterView =>
          \A i \in DOMAIN response.data :
              response.data[i].MODE \notin 1..5 =>
                  response.data[i].mode_description = "Unknown mode"
    /\ (request # NoRequest /\ RequestWellFormed) => response.status = 200

\* A line report over an unknown-mode log and a sewing log, and a listing
\* with an unknown-mode log.
C12_Witness ==
    /\ locals.view = "line_reports"
    /\ \E l \in ContributingLogs : l.MODE = 6 /\ l.duration_hours = 3600
    /\ \E l \in ContributingLogs : l.MODE = 1 /\ l.duration_hours = 3600
    /\ response.report.totalHours = 100
    /\ response.report.totalNonProductiveTime.hours = 0

\* The sum of the values f[1], ..., f[n] of a sequence, written out for the
\* at most three entities a response holds.
Total(f) ==
    IF Len(f) = 0 THEN 0
    ELSE IF Len(f) = 1 THEN f[1]
    ELSE IF Len(f) = 2 THEN f[1] + f[2]
    ELSE f[1] + f[2] + f[3]

\* C13: in the all-lines roll-up each additive summary field (total hours,
\* productive hours, non-productive hours, ideal hours, stitch count) equals
\* the sum of the same field over the per-line reports of the same response.
C13_RollUpIsSumOfEntities ==
    locals.view = "line_reports_all" =>
        LET r == response.allLinesReport
            sm == response.summary
        IN  /\ Len(r) <= 3
            /\ sm.totalLines = Len(r)
            /\ sm.totalHours = Total([i \in DOMAIN r |-> r[i].totalHours])
            /\ sm.totalProductiveTime.hours =
                 Total([i \in DOMAIN r |-> r[i].totalProductiveTime.hours])
            /\ sm.totalNonProductiveTime.hours =
                 Total([i \in DOMAIN r |-> r[i].totalNonProductiveTime.hours])
            /\ sm.totalIdealHours = Total([i \in DOMAIN r |-> r[i].totalIdealHours])
            /\ sm.totalStitchCount = Total([i \in DOMAIN r |-> r[i].totalStitchCount])

C13_Witness ==
    /\ locals.view = "line_reports_all"
    /\ Len(response.allLinesReport) = 2
    /\ response.allLinesReport[1].totalHours = 300
    /\ response.allLinesReport[2].totalHours = 200
    /\ response.allLinesReport[2].totalIdealHours = 200
    /\ response.summary.totalHours = 500
    /\ response.summary.totalIdealHours = 200
    /\ response.summary.totalStitchCount = 100

Abs(x) == IF x < 0 THEN -x ELSE x

\* C14 (as claimed): in the all-lines roll-up the summary's averageSewingSpeed
\* is the sum over lines of (line averageSewingSpeed x line totalHours)
\* divided by the sum over lines of line totalHours, within 0.01, and is 0
\* when the sum of the lines' total hours is 0.  (All values in hundredths.)
C14_WeightedAverageSpeed ==
    locals.view = "line_reports_all" =>
        LET r == response.allLinesReport
            hours == Total([i \in DOMAIN r |-> r[i].totalHours])
            weighted == Total([i \in DOMAIN r |->
                                  r[i].averageSewingSpeed * r[i].totalHours])
            speed == response.summary.averageSewingSpeed
        IN  IF hours = 0 THEN speed = 0
            ELSE Abs(speed * hours - weighted) <= Abs(hours)

\* The part of C14 that the code satisfies: roll-ups whose lines' total hours
\* sum to zero or more.
C14_WeightedAverageSpeedOfPositiveHours ==
    (/\ locals.view = "line_reports_all"
     /\ Total([i \in DOMAIN response.allLinesReport |->
                  response.allLinesReport[i].totalHours]) >= 0)
        => C14_WeightedAverageSpeed

\* The response of an 'all' request that succeeded.
AllVariantResponse ==
    /\ response.status = 200
    /\ \/ locals.view \in {"operator_reports_all", "line_reports_all",
                           "machine_reports_all", "all_machines_report"}
       \/ locals.view = "operator_reports_by_name" /\ request.arg = "All"

\* The list of per-entity reports of the response, if it has one.
EntityList ==
    IF "allLinesReport" \in DOMAIN response THEN response.allLinesReport
    ELSE IF "allMachinesReport" \in DOMAIN response THEN response.allMachinesReport
    ELSE IF "data" \in DOMAIN response THEN response.data
    ELSE <<>>
HasEntityList ==
    DOMAIN response \cap {"allLinesReport", "allMachinesReport", "data"} # {}

serve(db, req) ==
    CASE req.view = "operator_reports_by_name" ->
             operator_reports_by_name(db, req.arg, req.from_date, req.to_date).response
      [] req.view = "operator_reports_all" ->
             operator_reports_all(db, req.from_date, req.to_date).response
      [] req.view = "line_reports" ->
             line_reports(db, req.arg, req.from_date, req.to_date).response
      [] req.view = "machine_reports" ->
             machine_reports(db, req.arg, req.from_date, req.to_date).response
      [] req.view = "all_machines_report" ->
             all_machines_report(db, req.from_date, req.to_date).response
      [] req.view = "filter_logs" ->
             filter_logs(db, req.arg, req.from_date, req.to_date).response
      [] req.view = "filter_logs_by_machine_id" ->
             filter_logs_by_machine_id(db, req.arg, req.from_date, req.to_date).response

\* The stored logs in two other orders; these two reorderings generate every
\* permutation.
Reversed(db) == [i \in 1..Len(db) |-> db[Len(db) + 1 - i]]
Rotated(db) == IF db = <<>> THEN <<>> ELSE Append(Tail(db), Head(db))

\* C17: for a fixed set of logs, every bucket sum, count and average (the
\* whole response) of a report is the same for every order in which the logs
\* are stored and returned by the queries.
C17_OrderInvariant ==
    (locals.view # "none" /\ ~FilterView) =>
        /\ serve(Reversed(store), request) = response
        /\ serve(Rotated(store), request) = response

C17_Witness ==
    /\ locals.view = "line_reports"
    /\ Len(store) = 2
    /\ store[1].RESERVE = "3000" /\ store[2].RESERVE = "2000"
    /\ store[1].DATE = store[2].DATE
    /\ Len(response.report.tableData) = 1
    /\ response.report.tableData[1].row.SewingSpeed = 250000
    /\ response.report.averageSewingSpeed = 250000

\* C18: the daily table of every report lists its rows in strictly ascending
\* date order (operator report: ascending date, then ascending operator id
\* within a date) with exactly one row per group key, and the 'all' reports
\* list their entities in ascending line number / machine id.
C18_RowsAndEntitiesAscending ==
    /\ locals.view = "operator_reports_by_name" =>
          LET rows == response.tableData IN
          /\ \A i, j \in DOMAIN rows :
                i < j =>
                    \/ rows[i].Date < rows[j].Date
                    \/ /\ rows[i].Date = rows[j].Date
                       /\ OperatorRank(rows[i].OperatorID)
                            < OperatorRank(rows[j].OperatorID)
          /\ {<<rows[i].Date, rows[i].OperatorID>> : i \in DOMAIN rows} =
               {<<l.DATE, l.OPERATOR_ID>> : l \in ContributingLogs}
    /\ LineFamilyView =>
          /\ \A k \in DOMAIN locals.entities :
                LET rows == (IF "report" \in DOMAIN response THEN response.report
                             ELSE EntityList[k]).tableData
                IN  /\ \A i, j \in DOMAIN rows :
                          i < j => rows[i].row.Date < rows[j].row.Date
                    /\ {rows[i].row.Date : i \in DOMAIN rows} =
                         DatesOf(locals.entities[k].logs)
          /\ locals.view = "line_reports_all" =>
                \A i, j \in DOMAIN response.allLinesReport :
                    i < j => LineNumberStrings[response.allLinesReport[i].lineNumber]
                               < LineNumberStrings[response.allLinesReport[j].lineNumber]
          /\ locals.view \in {"machine_reports_all", "all_machines_report"} =>
                \A i, j \in DOMAIN response.allMachinesReport :
                    i < j => response.allMachinesReport[i].machineId
                               < response.allMachinesReport[j].machineId

C18_Witness ==
    /\ locals.view = "operator_reports_by_name"
    /\ Len(response.tableData) = 2
    /\ response.tableData[1].Date = response.tableData[2].Date
    /\ response.tableData[1].OperatorID = "A"
    /\ response.tableData[2].OperatorID = "B"
    /\ store[1].OPERATOR_ID = "B"

(***************************************************************************)
(* C19: malformed input.                                                   *)
(***************************************************************************)
\* The request carries a value that does not parse: a posted MODE, DATE,
\* START_TIME or END_TIME text, or a from_date / to_date query parameter.
MalformedRequest ==
    \/ /\ request.view = "log_machine_data"
       /\ "posted" \in DOMAIN request
       /\ \/ request.posted.MODE \notin DOMAIN ModeTexts
          \/ ~is_valid(request.posted)
    \/ /\ "from_date" \in DOMAIN request
       /\ ~dates_parse(request.from_date, request.to_date)

\* The response tells the caller that the request was rejected: a 4xx status
\* or the serializer's "Validation failed" body.
ValidationFailure(r) ==
    \/ r.status \in 400..499
    \/ "message" \in DOMAIN r /\ r.message = "Validation failed"

ReturnsReport(r) ==
    \E f \in {"report", "data", "allMachinesReport", "allLinesReport"} : f \in DOMAIN r

\* C19: a request with a malformed input (non-numeric MODE, unparsable DATE,
\* START_TIME or END_TIME, unparsable from_date or to_date) ends with a
\* validation-failure response, stores nothing and returns no report.
C19_MalformedInputRejected ==
    [][(Idle /\ MalformedRequest') =>
           /\ store' = store
           /\ ValidationFailure(response')
           /\ ~ReturnsReport(response')]_vars

\* The part of C19 that the views do keep: nothing is stored and no report
\* is returned, and log_machine_data and all_machines_report answer with a
\* validation failure.
C19_MalformedInputAborts ==
    [][(Idle /\ MalformedRequest') =>
           /\ store' = store
           /\ ~ReturnsReport(response')
           /\ locals' = NoLocals
           /\ request'.view \in {"log_machine_data", "all_machines_report"}
                  => ValidationFailure(response')]_vars

(***************************************************************************)
(* C20: operators absent from the directory.                               *)
(***************************************************************************)
AbsentFromDirectory(op) == ~\E o \in Operators : o.rfid_card_no = op

\* The listing request selects the stored log l.
ListingSelects(l) ==
    /\ InDateRange(l)
    /\ \/ request.arg \in {"", "all"}
       \/ /\ request.view = "filter_logs"
          /\ LineNumberStrings[request.arg] = l.LINE_NUMBER
       \/ /\ request.view = "filter_logs_by_machine_id"
          /\ MachineIdStrings[request.arg] = l.MACHINE_ID

\* operator_reports_by_name('All'): the report is produced, every stored log
\* of an absent operator that the filters keep has its (date, operator) row,
\* named "Unknown", and the row's buckets and the summary count its hours.
UnknownInOperatorTable ==
    (/\ request.view = "operator_reports_by_name"
     /\ request.arg = "All"
     /\ dates_parse(request.from_date, request.to_date)) =>
        /\ response.status = 200
        /\ \A i \in DOMAIN store :
              LET l == store[i] IN
              (/\ AbsentFromDirectory(l.OPERATOR_ID)
               /\ InDateRange(l)
               /\ PassesTimeFilters(l)
               /\ ~(l.OPERATOR_ID = "0" /\ l.MODE = 2)) =>
                  /\ \E c \in ContributingLogs :
                        /\ c.OPERATOR_ID = l.OPERATOR_ID /\ c.DATE = l.DATE
                        /\ c.START_TIME = l.START_TIME /\ c.MODE = l.MODE
                        /\ c.duration_hours > 0
                  /\ \E k \in DOMAIN response.tableData :
                        /\ response.tableData[k].Date = l.DATE
                        /\ response.tableData[k].OperatorID = l.OPERATOR_ID
        /\ \A k \in DOMAIN response.tableData :
              LET r == response.tableData[k]
                  g == OfOperator(OnDate(locals.logs, r.Date), r.OperatorID)
              IN  AbsentFromDirectory(r.OperatorID) =>
                      /\ r.OperatorName = "Unknown"
                      /\ r.SewingHours = RoundHours(HoursOf(g, {1}))
                      /\ r.NoFeedingHours = RoundHours(HoursOf(g, {3}))
                      /\ r.MeetingHours = RoundHours(HoursOf(g, {4}))
                      /\ r.MaintenanceHours = RoundHours(HoursOf(g, {5}))
        /\ response.totalProductionHours = RoundHours(HoursOf(locals.logs, {1}))

\* filter_logs / filter_logs_by_machine_id: the listing is produced, holds
\* every selected log of an absent operator, and names it "".
EmptyNameInListings ==
    (/\ request.view \in {"filter_logs", "filter_logs_by_machine_id"}
     /\ request.arg \in {"1", "2", "all", ""}
     /\ dates_parse(request.from_date, request.to_date)) =>
        /\ response.status = 200
        /\ \A i \in DOMAIN store :
              (AbsentFromDirectory(store[i].OPERATOR_ID) /\ ListingSelects(store[i])) =>
                  \E k \in DOMAIN response.data :
                      /\ response.data[k].OPERATOR_ID = store[i].OPERATOR_ID
                      /\ response.data[k].DATE = store[i].DATE
                      /\ response.data[k].START_TIME = store[i].START_TIME
                      /\ response.data[k].MODE = store[i].MODE
        /\ \A k \in DOMAIN response.data :
              AbsentFromDirectory(response.data[k].OPERATOR_ID) =>
                  response.data[k].operator_name = ""

\* operator_report for an absent operator id: the report is produced.
AbsentOperatorReportProduced ==
    (/\ request.view = "operator_report"
     /\ AbsentFromDirectory(request.arg)
     /\ dates_parse(request.from_date, request.to_date)) =>
        response.status = 200

\* C20: an operator id that is absent from the Operator directory never
\* raises: the report or listing is still produced, the operator name is the
\* call site's sentinel ("Unknown" in the operator report table, "" in the
\* filter endpoints), and the log's hours are still counted.
C20_AbsentOperatorDegrades ==
    /\ UnknownInOperatorTable
    /\ EmptyNameInListings
    /\ AbsentOperatorReportProduced

\* The part of C20 that holds: the operator report table and the filter
\* endpoints degrade to their sentinel and keep the log.
C20_SentinelWhereProduced ==
    /\ UnknownInOperatorTable
    /\ EmptyNameInListings

\* An operator report table with an "Unknown" row that counts one sewing
\* hour, and a listing with an unnamed log.
C20_SentinelReached ==
    \/ /\ request.view = "operator_reports_by_name"
       /\ response.status = 200
       /\ \E k \in DOMAIN response.tableData :
             /\ response.tableData[k].OperatorID = "Z"
             /\ response.tableData[k].OperatorName = "Unknown"
             /\ response.tableData[k].SewingHours = 100
    \/ /\ request.view = "filter_logs"
       /\ response.status = 200
       /\ \E k \in DOMAIN response.data :
             response.data[k].OPERATOR_ID = "Z" /\ response.data[k].operator_name = ""

(***************************************************************************)
(* C21: utilization of a line.                                             *)
(***************************************************************************)
\* actual / ideal x 100 rounded to hundredths, 0 when ideal is 0.
UtilizationOf(actual, ideal) ==
    IF ideal = 0 THEN 0
    ELSE IF ideal > 0 THEN Round2(100 * actual, ideal)
    ELSE Round2(-100 * actual, -ideal)

LineReportsOfResponse ==
    IF locals.view = "line_reports" THEN <<response.report>>
    ELSE response.allLinesReport

\* C21: utilizationPercentage of a line, and of the all-lines summary, is
\* total actual hours / total ideal hours x 100, where ideal hours is the sum
\* of the durations of the line's mode-2 logs, and is 0 when ideal hours is 0.
C21_Utilization ==
    locals.view \in {"line_reports", "line_reports_all"} =>
        /\ \A k \in DOMAIN locals.entities :
              LineReportsOfResponse[k].utilizationPercentage =
                  UtilizationOf(HoursOf(locals.entities[k].logs, 1..5),
                                HoursOf(locals.entities[k].logs, {2}))
        /\ locals.view = "line_reports_all" =>
              response.summary.utilizationPercentage =
                  UtilizationOf(HoursOf(locals.logs, 1..5), HoursOf(locals.logs, {2}))

\* C21 for lines whose ideal hours are not negative.
C21_UtilizationOfNonNegativeIdeal ==
    locals.view \in {"line_reports", "line_reports_all"} =>
        /\ \A k \in DOMAIN locals.entities :
              HoursOf(locals.entities[k].logs, {2}) >= 0 =>
                  LineReportsOfResponse[k].utilizationPercentage =
                      UtilizationOf(HoursOf(locals.entities[k].logs, 1..5),
                                    HoursOf(locals.entities[k].logs, {2}))
        /\ (locals.view = "line_reports_all"
              /\ \A k \in DOMAIN locals.entities :
                    HoursOf(locals.entities[k].logs, {2}) >= 0) =>
              response.summary.utilizationPercentage =
                  UtilizationOf(HoursOf(locals.logs, 1..5), HoursOf(locals.logs, {2}))

\* A line with three sewing hours against two idle hours: 150 %.
C21_UtilizationReached ==
    /\ locals.view = "line_reports"
    /\ response.report.utilizationPercentage = 15000

(***************************************************************************)
(* C22: sewing speed.                                                      *)
(***************************************************************************)
\* The mean of RESERVE over the logs whose RESERVE is positive, in
\* hundredths; 0 when there is none.
MeanOfPositiveReserve(logs) ==
    LET v == SelectSeq(logs, LAMBDA l : l.reserve_numeric > 0)
    IN  IF v = <<>> THEN 0
        ELSE Round2(SumSeq([i \in DOMAIN v |-> v[i].reserve_numeric]), Len(v))

\* The summary speeds of the operator report and of the line reports.
SummarySpeedIsMeanOfPositive ==
    /\ locals.view = "operator_reports_by_name" =>
          response.averageSewingSpeed = MeanOfPositiveReserve(locals.logs)
    /\ locals.view \in {"line_reports", "line_reports_all"} =>
          \A k \in DOMAIN locals.entities :
              LineReportsOfResponse[k].averageSewingSpeed =
                  MeanOfPositiveReserve(locals.entities[k].logs)

\* The speeds of the daily table rows.
RowSpeedIsMeanOfPositive ==
    /\ locals.view = "operator_reports_by_name" =>
          \A k \in DOMAIN response.tableData :
              LET r == response.tableData[k] IN
              r.SewingSpeed =
                  MeanOfPositiveReserve(
                      OfOperator(OnDate(locals.logs, r.Date), r.OperatorID))
    /\ locals.view \in {"line_reports", "line_reports_all"} =>
          \A k \in DOMAIN locals.entities :
              \A i \in DOMAIN LineReportsOfResponse[k].tableData :
                  LET r == LineReportsOfResponse[k].tableData[i].row IN
                  r.SewingSpeed =
                      MeanOfPositiveReserve(OnDate(locals.entities[k].logs, r.Date))

\* C22: every reported sewing speed, in the summary and in each daily table
\* row, is the mean of RESERVE over exactly those logs of the group whose
\* RESERVE is a positive integer; a log with a non-positive RESERVE changes
\* neither the sum nor the count of the mean.
C22_SpeedIsMeanOfPositiveReserve ==
    SummarySpeedIsMeanOfPositive /\ RowSpeedIsMeanOfPositive

\* The part of C22 that holds: the summary speeds.
C22_SummarySpeed == SummarySpeedIsMeanOfPositive

(***************************************************************************)
(* C23: needle runtime percentage.                                         *)
(***************************************************************************)
\* (sum of SKIP_COUNT over the mode-1 logs / 3600) / productive hours x 100
\* in hundredths, 0 when productive hours is 0.
NeedleRuntimeOf(logs) ==
    LET sewing == SelectSeq(logs, LAMBDA l : l.MODE = 1)
        skip == SumSeq([i \in DOMAIN sewing |-> sewing[i].SKIP_COUNT])
        productive == HoursOf(logs, {1})
    IN  IF productive = 0 THEN 0
        ELSE IF productive > 0 THEN Round2(100 * skip, productive)
        ELSE Round2(-100 * skip, -productive)

OperatorNeedleRuntime ==
    locals.view = "operator_reports_by_name" =>
        response.needleRuntimePercentage = NeedleRuntimeOf(locals.logs)

LineNeedleRuntime ==
    locals.view \in {"line_reports", "line_reports_all"} =>
        \A k \in DOMAIN locals.entities :
            LineReportsOfResponse[k].needleRuntimePercentage =
                NeedleRuntimeOf(locals.entities[k].logs)

SummaryNeedleRuntime ==
    locals.view = "line_reports_all" =>
        response.summary.needleRuntimePercentage = NeedleRuntimeOf(locals.logs)

\* C23: needleRuntimePercentage = (sum of SKIP_COUNT over mode-1 logs only,
\* divided by 3600) / productive hours x 100, and 0 when productive hours is
\* 0, in the operator report, the line report and the all-lines summary.
C23_NeedleRuntimePercentage ==
    OperatorNeedleRuntime /\ LineNeedleRuntime /\ SummaryNeedleRuntime

\* The part of C23 that holds: the operator report.
C23_OperatorNeedleRuntime == OperatorNeedleRuntime

(***************************************************************************)
(* C24: rounding in the all-lines summary.                                 *)
(***************************************************************************)
\* C24: the combined 'all' summary accumulates unrounded per-line values and
\* rounds to 2 decimals only once, when the response is built: each hours
\* figure of the summary is the rounded sum of the lines' unrounded hours.
C24_SummaryRoundedOnce ==
    locals.view = "line_reports_all" =>
        /\ response.summary.totalHours =
              RoundHours(SumSeq([k \in DOMAIN locals.entities |->
                                    locals.entities[k].totals.total_hours]))
        /\ response.summary.totalProductiveTime.hours =
              RoundHours(SumSeq([k \in DOMAIN locals.entities |->
                                    locals.entities[k].totals.total_productive_time]))
        /\ response.summary.totalNonProductiveTime.hours =
              RoundHours(SumSeq([k \in DOMAIN locals.entities |->
                                    locals.entities[k].totals.total_non_productive_time]))
        /\ response.summary.totalIdealHours =
              RoundHours(SumSeq([k \in DOMAIN locals.entities |->
                                    locals.entities[k].total_ideal_hours]))

\* What the summary does: it adds the lines' figures as rounded for their
\* own reports.
C24_SummaryAddsRoundedFigures ==
    locals.view = "line_reports_all" =>
        /\ response.summary.totalHours =
              SumSeq([k \in DOMAIN locals.entities |->
                         RoundHours(locals.entities[k].totals.total_hours)])
        /\ response.summary.totalProductiveTime.hours =
              SumSeq([k \in DOMAIN locals.entities |->
                         RoundHours(locals.entities[k].totals.total_productive_time)])

\* Two lines of ten sewing minutes each: 0.17 + 0.17 = 0.34 h in the
\* summary, 0.33 h when rounded once.
C24_RoundedTwiceReached ==
    /\ locals.view = "line_reports_all"
    /\ Len(locals.entities) = 2
    /\ response.summary.totalHours = 34

(***************************************************************************)
(* C25: calculate_operator_efficiency.                                     *)
(***************************************************************************)
\* Worked seconds of a stored log: end - start, the end taken on the next
\* day when it is before the start.
WorkedSeconds(l) ==
    IF EndOf(l) >= StartOf(l) THEN EndOf(l) - StartOf(l)
    ELSE EndOf(l) + 86400 - StartOf(l)

\* C25: calculate_operator_efficiency reports, for each log, efficiency =
\* worked seconds / 28800 x 100 where worked seconds = end - start when
\* end >= start and end + 86400 - start when end < start; the result is
\* never negative, no log is dropped, and no working-window clamp or break
\* filter is applied.
C25_EfficiencyPerLog ==
    request.view = "calculate_operator_efficiency" =>
        /\ response.status = 200
        /\ Len(response.data) = Len(store)
        /\ \A i \in DOMAIN store :
              /\ response.data[i].operator[2] = store[i].OPERATOR_ID
              /\ response.data[i].efficiency = Round2(100 * WorkedSeconds(store[i]), 28800)
              /\ response.data[i].efficiency >= 0

\* A log that ends before it starts (10:00 -> 09:00, 23 h) is reported with
\* 287.5 %.
C25_Witness ==
    /\ request.view = "calculate_operator_efficiency"
    /\ Len(store) = 1
    /\ EndOf(store[1]) < StartOf(store[1])
    /\ response.data[1].efficiency = 28750

(***************************************************************************)
(* C26: duplicates under concurrent ingestion.                             *)
(***************************************************************************)
SameKey(a, b) ==
    /\ a.MACHINE_ID = b.MACHINE_ID
    /\ a.OPERATOR_ID = b.OPERATOR_ID
    /\ a.START_TIME = b.START_TIME
    /\ a.END_TIME = b.END_TIME
    /\ a.DATE = b.DATE

\* C26: after any interleaving of log_machine_data requests, including
\* concurrent requests with identical payloads, the store never holds two
\* MachineLog records equal on (MACHINE_ID, OPERATOR_ID, START_TIME, END_TIME,
\* DATE): at most one request per key is answered 'Log saved successfully'.
C26_NoDuplicateKey ==
    \A i, j \in DOMAIN store : i # j => ~SameKey(store[i], store[j])

\* What the check does ensure: a request whose exists() query ran after the
\* insert of an equal record gets the duplicate response and stores nothing.
C26_DuplicateSeenIsRejected ==
    [][\A w \in Workers :
          (locals[w] # NoLocals /\ locals[w].exists /\ response[w] = NoResponse
             /\ response'[w] # NoResponse) =>
              (store' = store /\ response'[w].status = 201)]_vars

(***************************************************************************)
(* C27: the round-robin router under several threads.                      *)
(***************************************************************************)
\* Thread t makes a db_for_read call in this step (its index advances or
\* the call raises); otherwise the step is a db_for_write call.
ReadStep(t) ==
    /\ request'[t] = request[t] + 1
    /\ \/ response'[t] = "AttributeError"
       \/ locals'[t] # locals[t]

WriteStep(t) == request'[t] = request[t] + 1 /\ ~ReadStep(t)

\* Every call returns a database name and none raises.
NoRouterCallRaises ==
    \A t \in Threads : response[t] \in {"none", "default", "replica1", "replica2"}

\* Successive reads of a thread that has its index cycle through default,
\* replica1, replica2; a write returns 'default' and leaves the index alone.
CyclicReadsAndFixedWrites ==
    \A t \in Threads :
        /\ (ReadStep(t) /\ locals[t].has_index) =>
              /\ response'[t] = databases[locals[t].index + 1]
              /\ locals'[t].index = (locals[t].index + 1) % 3
        /\ WriteStep(t) =>
              /\ response'[t] = "default"
              /\ locals'[t] = locals[t]

\* C27: for a single RoundRobinRouter instance used by any number of
\* threads, every db_for_read call from every thread returns one of
\* 'default', 'replica1', 'replica2' without raising, successive calls within
\* one thread return them cyclically in that order, and db_for_write always
\* returns 'default' without advancing the read index.
C27_RouterServesEveryThread ==
    []NoRouterCallRaises /\ [][CyclicReadsAndFixedWrites]_vars

\* The part of C27 that holds: the cycle in the constructing thread and the
\* writes of every thread.
C27_CycleInConstructingThread ==
    [][CyclicReadsAndFixedWrites
         /\ (ReadStep("t1") => response'["t1"] \in Range(databases))]_vars

(***************************************************************************)
(* C28: ranges of the reported figures.                                    *)
(***************************************************************************)
\* A percentage in [0, 100] and an hours figure >= 0, in hundredths.
IsShare(p) == 0 <= p /\ p <= 10000
IsHours(h) == h >= 0

OperatorReportInRange ==
    locals.view = "operator_reports_by_name" =>
        /\ IsShare(response.productionPercentage)
        /\ IsShare(response.nptPercentage)
        /\ IsHours(response.totalProductionHours)
        /\ IsHours(response.totalNonProductionHours)
        /\ IsHours(response.totalIdleHours)
        /\ \A k \in DOMAIN response.tableData :
              LET r == response.tableData[k] IN
              /\ IsShare(r.ProductiveTimePct) /\ IsShare(r.NPTPct)
              /\ IsHours(r.SewingHours) /\ IsHours(r.IdleHours)
              /\ IsHours(r.MeetingHours) /\ IsHours(r.NoFeedingHours)
              /\ IsHours(r.MaintenanceHours)

OperatorsAllInRange ==
    locals.view = "operator_reports_all" =>
        \A k \in DOMAIN response.data :
            /\ IsShare(response.data[k].productionPercentage)
            /\ IsShare(response.data[k].nptPercentage)
            /\ IsHours(response.data[k].totalProductionHours)
            /\ IsHours(response.data[k].totalNonProductionHours)

LineReportsInRange ==
    locals.view \in {"line_reports", "line_reports_all"} =>
        \A k \in DOMAIN locals.entities :
            LET r == LineReportsOfResponse[k] IN
            /\ IsShare(r.totalProductiveTime.percentage)
            /\ IsShare(r.totalNonProductiveTime.percentage)
            /\ IsHours(r.totalHours)
            /\ IsHours(r.totalProductiveTime.hours)
            /\ IsHours(r.totalNonProductiveTime.hours)
            /\ \A i \in DOMAIN r.tableData :
                  /\ IsShare(r.tableData[i].row.ProductiveTimePct)
                  /\ IsShare(r.tableData[i].row.NonProductiveTimePct)
                  /\ IsHours(r.tableData[i].row.TotalHours)

\* C28: for every set of stored logs, every percentage field of every report
\* lies in [0, 100] and every hours field is >= 0; in particular the operator
\* productionPercentage never exceeds 100 and totalNonProductionHours is
\* never negative.
C28_FiguresInRange ==
    OperatorReportInRange /\ OperatorsAllInRange /\ LineReportsInRange

\* The hours of the operator report are never negative: durations are
\* clamped to the window and idle hours are floored at 0.
C28_OperatorHoursNonNegative ==
    locals.view = "operator_reports_by_name" =>
        /\ IsHours(response.totalProductionHours)
        /\ IsHours(response.totalNonProductionHours)
        /\ IsHours(response.totalIdleHours)
        /\ response.productionPercentage >= 0
        /\ response.nptPercentage >= 0

(***************************************************************************)
(* C29: the two shares of a direct-idle group are complementary.           *)
(***************************************************************************)
\* Two unrounded percentages over the same total that add up to 100, or that
\* are both 0 when the total is not positive.
Complementary(p, q, total) ==
    IF total > 0
    THEN p.den = total /\ q.den = total /\ p.num + q.num = 100 * total
    ELSE p.num = 0 /\ q.num = 0

\* C29: in line and machine reports, for every day row and for the summary,
\* productive % + non-productive % = 100 before rounding whenever the
\* group's total hours is > 0, and both are 0 otherwise.
C29_SharesComplementary ==
    LineFamilyView =>
        \A k \in DOMAIN locals.entities :
            LET e == locals.entities[k] IN
            /\ Complementary(e.totals.total_productive_percentage,
                             e.totals.total_non_productive_percentage,
                             e.totals.total_hours)
            /\ \A i \in DOMAIN e.daily_data :
                  Complementary(e.daily_data[i].productive_time_percentage,
                                e.daily_data[i].non_productive_time_percentage,
                                e.daily_data[i].daily_total_hours)

\* A line report with a day of three sewing hours and two idle hours: the
\* shares of the day are 60 % and 40 % of its five hours.
C29_Witness ==
    /\ locals.view = "line_reports"
    /\ Len(locals.entities) = 1
    /\ \E i \in DOMAIN locals.entities[1].daily_data :
          LET r == locals.entities[1].daily_data[i] IN
          /\ r.daily_total_hours = 5 * 3600
          /\ r.productive_time_percentage.num = 300 * 3600
          /\ r.non_productive_time_percentage.num = 200 * 3600
    /\ locals.entities[1].totals.total_hours = 5 * 3600
    /\ locals.entities[1].totals.total_productive_percentage.num = 300 * 3600

\* A group whose total is not positive: both shares are 0.
C29_EmptyGroupReached ==
    /\ LineFamilyView
    /\ \E k \in DOMAIN locals.entities :
          /\ locals.entities[k].logs # <<>>
          /\ locals.entities[k].totals.total_hours <= 0
          /\ locals.entities[k].totals.total_productive_percentage.num = 0

(***************************************************************************)
(* C30: the operator summary against its daily table.                      *)
(***************************************************************************)
\* The sums of the unrounded columns of table_data; 'Idle Hours' is shown
\* as max(idle_hours, 0).
RowsTotalHours ==
    SumSeq([i \in DOMAIN locals.table_data |-> locals.table_data[i].total_hours])
RowsSewingHours ==
    SumSeq([i \in DOMAIN locals.table_data |-> locals.table_data[i].sewing_hours])
RowsIdleHours ==
    SumSeq([i \in DOMAIN locals.table_data |->
               Max(locals.table_data[i].idle_hours, 0)])

TotalHoursReconcile == locals.total_available_hours = RowsTotalHours
ProductionHoursReconcile == locals.total_production_hours = RowsSewingHours
IdleHoursReconcile == locals.total_idle_hours = RowsIdleHours

\* C30: in the operator report, for a single operator and for
\* operator_name = 'All' alike, totalHours equals the sum of the rows'
\* 'Total Hours', totalProductionHours the sum of the rows' 'Sewing Hours'
\* and totalIdleHours the sum of the rows' 'Idle Hours' (before rounding).
C30_SummaryReconciles ==
    locals.view = "operator_reports_by_name" =>
        TotalHoursReconcile /\ ProductionHoursReconcile /\ IdleHoursReconcile

\* The same for the report of a single operator only.
C30_SingleOperatorReconciles ==
    (locals.view = "operator_reports_by_name" /\ request.arg # "All") =>
        TotalHoursReconcile /\ ProductionHoursReconcile /\ IdleHoursReconcile

\* What does reconcile: the production hours in every report, and the total
\* hours in the report of a single operator.
C30_ProductionAndOwnTotalReconcile ==
    locals.view = "operator_reports_by_name" =>
        /\ ProductionHoursReconcile
        /\ request.arg # "All" => TotalHoursReconcile

\* An 'All' report with two operators on one date: two rows of ten hours
\* against ten available hours.
C30_TwoOperatorsOneDate ==
    /\ locals.view = "operator_reports_by_name"
    /\ request.arg = "All"
    /\ Len(locals.table_data) = 2
    /\ locals.table_data[1].DATE = locals.table_data[2].DATE
    /\ RowsTotalHours = 2 * locals.total_available_hours

====
